---- MODULE Spec2Model ----
(***************************************************************************)
(* Prairie Genomics Suite: the expression-stratified differential          *)
(* expression pipeline of the two Streamlit applications,                  *)
(* prairie_genomics_web_app.py ("web") and prairie_genomics_enhanced.py    *)
(* ("enhanced").  The state is the Streamlit session store; one action per *)
(* button handler or helper call.                                          *)
(*                                                                         *)
(* Conventions.  A Python string is a sequence of one-character strings,   *)
(* so that substring tests and upper-casing are computed.  A Python        *)
(* Optional is None == <<>> or Some(x) == <<x>>.  A sample column is its   *)
(* position 1..n in the matrix.  Expression values are naturals of the     *)
(* form 2^k - 1, so that log2(x + 1) = k is exact.  Real numbers are       *)
(* rationals <<num, den>> with den > 0.                                    *)
(***************************************************************************)
EXTENDS Integers, Sequences, FiniteSets, TLC

VARIABLES
    app,              \* which application this session runs: "web" or "enhanced"
    expression_data,  \* st.session_state.expression_data: None or Some(matrix)
    clinical_data,    \* st.session_state.clinical_data: None or Some(table)
    gene_symbols,     \* st.session_state.gene_symbols: ordered dict, a sequence of [id, symbol]
    de_results,       \* st.session_state.de_results: None or Some(result table)
    last              \* what the most recent handler call did and showed

vars == <<app, expression_data, clinical_data, gene_symbols, de_results, last>>

-----------------------------------------------------------------------------
(* Bounds of the model *)

\* symbol map entries drawn in the resolver specification
MaxMapLen == 2
\* matrix row keys drawn in the resolver specification
MaxKeys == 3
\* sample columns drawn in the stratifier specification
MaxSamples == 5
\* expression values are 2^k - 1 for k in 0..MaxLog
MaxLog == 3
\* the longest vector of p-values given to the correction
MaxTests == 3

-----------------------------------------------------------------------------
(* Python values *)

None == <<>>
Some(x) == <<x>>
IsNone(o) == o = <<>>
The(o) == o[1]

Apps == {"web", "enhanced"}

\* str.upper(), character by character, on the alphabet of the model
UpperChar(c) ==
    CASE c = "t" -> "T"
      [] c = "p" -> "P"
      [] c = "m" -> "M"
      [] c = "x" -> "X"
      [] OTHER -> c

Upper(s) == [i \in DOMAIN s |-> UpperChar(s[i])]

\* Python's `sub in s` on strings
Contains(sub, s) ==
    \E i \in 0..(Len(s) - Len(sub)) : SubSeq(s, i + 1, i + Len(sub)) = sub

RECURSIVE Pow2(_)
Pow2(k) == IF k = 0 THEN 1 ELSE 2 * Pow2(k - 1)

Values == {Pow2(k) - 1 : k \in 0..MaxLog}

\* all sequences over S of length lo..hi
SeqsOf(S, lo, hi) == UNION {[1..n -> S] : n \in lo..hi}

\* sequences without repetition
Distinct(s) == \A i, j \in DOMAIN s : i # j => s[i] # s[j]

Min(S) == CHOOSE x \in S : \A y \in S : x <= y
Max(S) == CHOOSE x \in S : \A y \in S : x >= y

-----------------------------------------------------------------------------
(* GeneIdentifierResolver *)

\* for expr_gene_id in index: if gene_id in expr_gene_id: return expr_gene_id
RECURSIVE ScanContains(_, _, _)
ScanContains(gene_id, index, i) ==
    IF i > Len(index) THEN None
    ELSE IF Contains(gene_id, index[i]) THEN Some(index[i])
    ELSE ScanContains(gene_id, index, i + 1)

\* a scan that settles for the first row key without comparing it to the target
ScanUpperFirstKey(target, index, i) ==
    IF i > Len(index) THEN None ELSE Some(index[i])

\* for gene_id in index: if target.upper() in gene_id.upper(): return gene_id
RECURSIVE ScanUpper(_, _, _)
ScanUpper(target, index, i) ==
    IF i > Len(index) THEN None
    ELSE IF Contains(Upper(target), Upper(index[i])) THEN Some(index[i])
    ELSE ScanUpper(target, index, i + 1)

\* a symbol loop that compares the symbol with the target as typed
RECURSIVE SymbolLoopCaseSensitive(_, _, _, _)
SymbolLoopCaseSensitive(target, symbols, index, k) ==
    IF k > Len(symbols) THEN None
    ELSE IF symbols[k].symbol = target
         THEN LET r == ScanContains(symbols[k].id, index, 1)
              IN  IF ~IsNone(r) THEN r
                  ELSE SymbolLoopCaseSensitive(target, symbols, index, k + 1)
         ELSE SymbolLoopCaseSensitive(target, symbols, index, k + 1)

\* for gene_id, symbol in gene_symbols.items(): ...
RECURSIVE SymbolLoop(_, _, _, _)
SymbolLoop(target, symbols, index, k) ==
    IF k > Len(symbols) THEN None
    ELSE IF Upper(symbols[k].symbol) = Upper(target)
         THEN LET r == ScanContains(symbols[k].id, index, 1)
              IN  IF ~IsNone(r) THEN r
                  ELSE SymbolLoop(target, symbols, index, k + 1)
         ELSE SymbolLoop(target, symbols, index, k + 1)

\* a lookup that tries the scan of the row keys before the symbol map
find_target_gene_scan_first(target, symbols, index) ==
    LET byScan == ScanUpper(target, index, 1)
    IN  IF ~IsNone(byScan) THEN byScan
        ELSE IF symbols # <<>> THEN SymbolLoop(target, symbols, index, 1)
        ELSE None

\* PrairieGenomicsWebApp.find_target_gene
find_target_gene(target, symbols, index) ==
    LET bySymbol == IF symbols # <<>> THEN SymbolLoop(target, symbols, index, 1)
                    ELSE None
    IN  IF ~IsNone(bySymbol) THEN bySymbol ELSE ScanUpper(target, index, 1)

\* a lookup that gives up the symbol map after its first matching entry
lookup_gene_id_first_entry(target, symbols, index) ==
    LET matching == {k \in 1..Len(symbols) : Upper(symbols[k].symbol) = Upper(target)}
        first == CHOOSE k \in matching : \A j \in matching : k <= j
        gene_id == IF matching # {} THEN ScanContains(symbols[first].id, index, 1)
                   ELSE None
    IN  IF IsNone(gene_id) THEN ScanUpper(target, index, 1) ELSE gene_id

\* the gene lookup at the top of PrairieGenomicsEnhanced.create_expression_groups
lookup_gene_id(target, symbols, index) ==
    LET gene_id == IF symbols # <<>> THEN SymbolLoop(target, symbols, index, 1)
                   ELSE None
    IN  IF IsNone(gene_id) THEN ScanUpper(target, index, 1) ELSE gene_id

-----------------------------------------------------------------------------
(* Numbers: rationals <<num, den>>, den > 0 *)

Rat(n, d) == <<n, d>>
RatOfInt(n) == <<n, 1>>
RatLt(a, b) == a[1] * b[2] < b[1] * a[2]
RatLeq(a, b) == a[1] * b[2] <= b[1] * a[2]
RatEq(a, b) == a[1] * b[2] = b[1] * a[2]
RatNeg(a) == <<-a[1], a[2]>>
RatSub(a, b) == <<a[1] * b[2] - b[1] * a[2], a[2] * b[2]>>

RECURSIVE SumSeq(_)
SumSeq(s) == IF s = <<>> THEN 0 ELSE Head(s) + SumSeq(Tail(s))

\* ascending insertion of v into the ascending sequence s
RECURSIVE Insert(_, _)
Insert(v, s) ==
    IF s = <<>> THEN <<v>>
    ELSE IF v <= Head(s) THEN <<v>> \o s
    ELSE <<Head(s)>> \o Insert(v, Tail(s))

RECURSIVE Sorted(_)
Sorted(s) == IF s = <<>> THEN <<>> ELSE Insert(Head(s), Sorted(Tail(s)))

\* a median taken at the middle position of the row as given, without sorting
MedianOfUnsorted(row) ==
    LET n == Len(row)
    IN  IF n % 2 = 1 THEN Rat(row[(n + 1) \div 2], 1)
        ELSE Rat(row[n \div 2] + row[n \div 2 + 1], 2)

\* pandas Series.median(): the middle value, or the mean of the two middle values
Median(row) ==
    LET s == Sorted(row)
        n == Len(row)
    IN  IF n % 2 = 1 THEN Rat(s[(n + 1) \div 2], 1)
        ELSE Rat(s[n \div 2] + s[n \div 2 + 1], 2)

\* pandas Series.quantile(num/den), linear interpolation between the order
\* statistics around position (n - 1) * num / den
Quantile(row, num, den) ==
    LET s == Sorted(row)
        n == Len(row)
        pos == (n - 1) * num
        lo == pos \div den
        rem == pos % den
    IN  IF rem = 0 THEN Rat(s[lo + 1], 1)
        ELSE Rat(den * s[lo + 1] + rem * (s[lo + 2] - s[lo + 1]), den)

\* target_expression[target_expression >= t].index and its like: the positions
\* of the row, in column order, whose value passes the comparison with t
Positions(row) == [i \in 1..Len(row) |-> i]
AtOrAbove(row, t) == SelectSeq(Positions(row), LAMBDA i : RatLeq(t, RatOfInt(row[i])))
Below(row, t) == SelectSeq(Positions(row), LAMBDA i : RatLt(RatOfInt(row[i]), t))
AtOrBelow(row, t) == SelectSeq(Positions(row), LAMBDA i : RatLeq(RatOfInt(row[i]), t))

-----------------------------------------------------------------------------
(* ExpressionStratifier *)

MedianSplit == "Median split"
QuartileSplitWeb == "Quartile split (top 25% vs bottom 25%)"
CustomThresholds == "Custom thresholds"
QuartileSplit == "Quartile split"
TertileSplit == "Tertile split"

WebMethods == {MedianSplit, QuartileSplitWeb, CustomThresholds}
EnhancedMethods == {MedianSplit, QuartileSplit, TertileSplit}

\* a Python call that returned v, or raised the exception e
Returned(v) == [raised |-> FALSE, error |-> "", value |-> v]
Raised(e) == [raised |-> TRUE, error |-> e, value |-> <<>>]

\* a median split that sends the samples tied with the median to neither group
group_samples_above_median(target_expression, method) ==
    IF method = MedianSplit
    THEN LET threshold == Median(target_expression)
         IN  Returned([high |-> SelectSeq(Positions(target_expression),
                                   LAMBDA i : RatLt(threshold, RatOfInt(target_expression[i]))),
                       low  |-> Below(target_expression, threshold)])
    ELSE IF method = QuartileSplitWeb
    THEN Returned([high |-> AtOrAbove(target_expression, Quantile(target_expression, 3, 4)),
                   low  |-> AtOrBelow(target_expression, Quantile(target_expression, 1, 4))])
    ELSE Raised("NameError")

\* PrairieGenomicsWebApp.group_samples on the target gene's row.  In the last
\* branch high_threshold and low_threshold are names of analysis_section's
\* scope, unbound here: evaluating the comparison raises NameError.
group_samples(target_expression, method) ==
    IF method = MedianSplit
    THEN LET threshold == Median(target_expression)
         IN  Returned([high |-> AtOrAbove(target_expression, threshold),
                       low  |-> Below(target_expression, threshold)])
    ELSE IF method = QuartileSplitWeb
    THEN LET q75 == Quantile(target_expression, 3, 4)
             q25 == Quantile(target_expression, 1, 4)
         IN  Returned([high |-> AtOrAbove(target_expression, q75),
                       low  |-> AtOrBelow(target_expression, q25)])
    ELSE Raised("NameError")

\* the labels of PrairieGenomicsEnhanced.create_expression_groups, one per
\* sample column, for the three methods of its selectbox
expression_groups(gene_expr, method) ==
    IF method = MedianSplit
    THEN LET threshold == Median(gene_expr)
         IN  [i \in 1..Len(gene_expr) |->
                 IF RatLeq(threshold, RatOfInt(gene_expr[i])) THEN "High" ELSE "Low"]
    ELSE LET hi == IF method = QuartileSplit THEN Quantile(gene_expr, 3, 4)
                   ELSE Quantile(gene_expr, 67, 100)
             lo == IF method = QuartileSplit THEN Quantile(gene_expr, 1, 4)
                   ELSE Quantile(gene_expr, 33, 100)
         IN  [i \in 1..Len(gene_expr) |->
                 IF RatLeq(hi, RatOfInt(gene_expr[i])) THEN "High"
                 ELSE IF RatLeq(RatOfInt(gene_expr[i]), lo) THEN "Low"
                 ELSE "Medium"]

\* the row of key gene_id in a matrix: expression_data.loc[gene_id]
RowOf(matrix, gene_id) ==
    matrix.rows[CHOOSE i \in 1..Len(matrix.index) : matrix.index[i] = gene_id]

\* PrairieGenomicsEnhanced.find_gene_expression: the row of the matrix, a
\* Series named by its row key, or None
find_gene_expression(target, symbols, matrix) ==
    LET bySymbol == IF symbols # <<>> THEN SymbolLoop(target, symbols, matrix.index, 1)
                    ELSE None
        expr_id == IF ~IsNone(bySymbol) THEN bySymbol
                   ELSE ScanUpper(target, matrix.index, 1)
    IN  IF IsNone(expr_id) THEN None
        ELSE Some([name |-> The(expr_id), values |-> RowOf(matrix, The(expr_id))])

\* PrairieGenomicsEnhanced.create_expression_groups: the design matrix (one
\* condition per sample), or ValueError when the gene is not found
create_expression_groups(matrix, symbols, target_gene, method) ==
    LET gene_id == lookup_gene_id(target_gene, symbols, matrix.index)
    IN  IF IsNone(gene_id) THEN Raised("ValueError: gene not found")
        ELSE Returned(expression_groups(RowOf(matrix, The(gene_id)), method))

-----------------------------------------------------------------------------
(* Floating point values: a rational <<n, d>> with d > 0, or NaN, +inf, -inf *)

NaN == <<0, 0>>
PosInf == <<1, 0>>
NegInf == <<-1, 0>>
IsNaN(x) == x[1] = 0 /\ x[2] = 0
IsFinite(x) == x[2] > 0

\* a < b on floats; every comparison with NaN is false
FLt(a, b) ==
    IF IsNaN(a) \/ IsNaN(b) THEN FALSE
    ELSE IF IsFinite(a) /\ IsFinite(b) THEN RatLt(a, b)
    ELSE IF ~IsFinite(a) /\ ~IsFinite(b) THEN a[1] < b[1]
    ELSE IF ~IsFinite(a) THEN a[1] < 0
    ELSE b[1] > 0

FLeq(a, b) ==
    IF IsNaN(a) \/ IsNaN(b) THEN FALSE
    ELSE ~FLt(b, a)

\* np.minimum: NaN if either argument is NaN
FMin(a, b) == IF IsNaN(a) \/ IsNaN(b) THEN NaN ELSE IF FLt(b, a) THEN b ELSE a

\* np.log2 on a power of two
RECURSIVE Log2(_)
Log2(n) == IF n <= 1 THEN 0 ELSE 1 + Log2(n \div 2)

\* the values of row at the sample positions cols, in the order of cols
Slice(row, cols) == [k \in 1..Len(cols) |-> row[cols[k]]]

Squares(s) == [k \in 1..Len(s) |-> s[k] * s[k]]

-----------------------------------------------------------------------------
(* scipy.stats.ttest_ind(a, b), equal variances.  With sums S and sums of    *)
(* squares Q, t = D / sqrt(W (na + nb) / df) / (na nb) where                 *)
(* D = Sa nb - Sb na and W = (na Qa - Sa^2) nb + (nb Qb - Sb^2) na, so       *)
(* t^2 = D^2 df / (W (na + nb)).  Zero pooled variance gives t = +-inf and   *)
(* p = 0 when the means differ and NaN when they agree; df = 0 gives NaN.    *)
(* The p-value of a finite t is read from the table of two-sided critical    *)
(* values: it is the smallest tabulated level (per mille) whose critical     *)
(* value |t| reaches, and 1000 below the first.                              *)

PLevels == <<200, 100, 50, 10, 1>>

\* 100 * (critical value)^2 at PLevels, by degrees of freedom (the last row
\* stands for every larger df)
Crit2(df) ==
    CASE df = 1 -> <<948, 3987, 16145, 405222, 40528376>>
      [] df = 2 -> <<356, 853, 1852, 9851, 99850>>
      [] df = 3 -> <<269, 554, 1013, 3412, 16703>>
      [] df = 4 -> <<236, 455, 771, 2120, 7414>>
      [] df = 5 -> <<218, 407, 662, 1626, 4719>>
      [] df = 6 -> <<208, 378, 599, 1375, 3551>>
      [] df = 7 -> <<201, 360, 560, 1225, 2925>>
      [] df = 8 -> <<196, 346, 532, 1126, 2542>>
      [] df = 9 -> <<192, 336, 512, 1057, 2286>>
      [] df = 10 -> <<189, 329, 497, 1005, 2105>>
      [] df = 11 -> <<186, 323, 485, 965, 1969>>
      [] df = 12 -> <<184, 318, 475, 934, 1865>>
      [] df = 13 -> <<183, 314, 467, 908, 1782>>
      [] OTHER -> <<181, 311, 461, 887, 1714>>

\* floor(100 n / d), capped above the table
T2x100(n, d) ==
    LET q == n \div d
        r == n % d
    IN  IF q >= 1000000 THEN 100000000 ELSE 100 * q + (100 * r) \div d

\* two-sided p-value, per mille, of t^2 = n / d with df degrees of freedom
PValue(n, d, df) ==
    LET t2 == T2x100(n, d)
        reached == {k \in 1..Len(PLevels) : t2 >= Crit2(df)[k]}
    IN  IF reached = {} THEN 1000 ELSE PLevels[Max(reached)]

Sign(x) == IF x > 0 THEN 1 ELSE IF x < 0 THEN -1 ELSE 0

\* the statistic is sign * sqrt(sq); pvalue is a float in [0, 1] or NaN
ttest_ind(a, b) ==
    LET na == Len(a)
        nb == Len(b)
        Sa == SumSeq(a)
        Sb == SumSeq(b)
        Qa == SumSeq(Squares(a))
        Qb == SumSeq(Squares(b))
        df == na + nb - 2
        D  == Sa * nb - Sb * na
        W  == (na * Qa - Sa * Sa) * nb + (nb * Qb - Sb * Sb) * na
    IN  IF df <= 0 THEN [sign |-> 0, sq |-> NaN, pvalue |-> NaN]
        ELSE IF W = 0
        THEN IF D = 0 THEN [sign |-> 0, sq |-> NaN, pvalue |-> NaN]
             ELSE [sign |-> Sign(D), sq |-> PosInf, pvalue |-> Rat(0, 1000)]
        ELSE [sign |-> Sign(D), sq |-> Rat(D * D * df, W * (na + nb)),
              pvalue |-> Rat(PValue(D * D * df, W * (na + nb), df), 1000)]

-----------------------------------------------------------------------------
(* MultipleTestingCorrector: Benjamini-Hochberg *)

\* the order of np.argsort: ascending, NaN last
Before(a, b) == ~IsNaN(a) /\ (IsNaN(b) \/ FLt(a, b))

RECURSIVE InsertIdx(_, _, _)
InsertIdx(i, s, k) ==
    IF s = <<>> THEN <<i>>
    ELSE IF Before(k[Head(s)], k[i]) THEN <<Head(s)>> \o InsertIdx(i, Tail(s), k)
    ELSE <<i>> \o s

\* the permutation that sorts the keys k ascending, equal keys in their order
RECURSIVE SortIdx(_, _)
SortIdx(k, i) == IF i > Len(k) THEN <<>> ELSE InsertIdx(i, SortIdx(k, i + 1), k)

\* p * m / rank
Scale(p, m, rank) == IF IsNaN(p) THEN NaN ELSE Rat(p[1] * m, p[2] * rank)

\* a correction that skips the running minimum
NoAccumulate(s, k) == s[k]

\* np.minimum.accumulate over the reversed sequence, reversed back
RECURSIVE MinFromEnd(_, _)
MinFromEnd(s, k) ==
    IF k = Len(s) THEN s[k] ELSE FMin(s[k], MinFromEnd(s, k + 1))

\* values above 1 become 1; NaN stays
ClipOne(x) == IF FLt(Rat(1, 1), x) THEN Rat(1, 1) ELSE x

\* a correction that returns the adjusted values in ascending order of the
\* raw p-values instead of the order of ps
bh_adjust_sorted(ps) ==
    LET m == Len(ps)
        order == SortIdx(ps, 1)
        raw == [k \in 1..m |-> Scale(ps[order[k]], m, k)]
    IN  [k \in 1..m |-> ClipOne(MinFromEnd(raw, k))]

\* the adjusted p-values, in the order of ps
bh_adjust(ps) ==
    LET m == Len(ps)
        order == SortIdx(ps, 1)
        raw == [k \in 1..m |-> Scale(ps[order[k]], m, k)]
        acc == [k \in 1..m |-> ClipOne(MinFromEnd(raw, k))]
        rank == [i \in 1..m |-> CHOOSE k \in 1..m : order[k] = i]
    IN  [i \in 1..m |-> acc[rank[i]]]

\* scipy.stats.false_discovery_control: ValueError unless every p is in [0, 1]
false_discovery_control(ps) ==
    IF \E i \in 1..Len(ps) : ~(FLeq(Rat(0, 1), ps[i]) /\ FLeq(ps[i], Rat(1, 1)))
    THEN Raised("ValueError: ps must include only numbers between 0 and 1")
    ELSE Returned(bh_adjust(ps))

\* a correction applied while the records arrive: the value of record k is
\* adjusted against the p-values of records 1..k only
multipletests_running(ps) == [k \in 1..Len(ps) |-> bh_adjust(SubSeq(ps, 1, k))[k]]

\* statsmodels multipletests(pvalues, method='fdr_bh'): no check of the input,
\* a NaN p-value makes every adjusted value NaN
multipletests(ps) == bh_adjust(ps)

-----------------------------------------------------------------------------
(* DifferentialExpressionEngine *)

\* the reciprocal of the 1e-6 added to both means in the web app's fold change
EpsInv == 1000000

\* gene_id.split('.')[0]
BeforeDot(gene_id) ==
    LET dots == {i \in 1..Len(gene_id) : gene_id[i] = "."}
    IN  IF dots = {} THEN gene_id ELSE SubSeq(gene_id, 1, Min(dots) - 1)

\* gene_symbols.get(key, default)
DictGet(symbols, key, default) ==
    LET hits == {k \in 1..Len(symbols) : symbols[k].id = key}
    IN  IF hits = {} THEN default ELSE symbols[Min(hits)].symbol

\* the web app's fold change log2((high.mean() + 1e-6) / (low.mean() + 1e-6)),
\* kept as the argument of log2: the ratio num / den of positive integers
web_log2fc(high_expr, low_expr) ==
    [num |-> (SumSeq(high_expr) * EpsInv + Len(high_expr)) * Len(low_expr),
     den |-> (SumSeq(low_expr) * EpsInv + Len(low_expr)) * Len(high_expr)]

\* n > k * d for positive k, without forming the product
GtTimes(n, k, d) == LET q == n \div k IN q > d \/ (q = d /\ n % k # 0)

\* log2(r.num / r.den) > t and < -t, for a natural t
Log2Gt(r, t) == GtTimes(r.num, Pow2(t), r.den)
Log2LtNeg(r, t) == GtTimes(r.den, Pow2(t), r.num)

\* a loop body that compares the High slice of gene i with the Low slice left
\* over from the gene before it
web_gene_record_stale(matrix, symbols, i, high_samples, low_samples) ==
    LET gene_id == matrix.index[i]
        high_expr == Slice(matrix.rows[i], high_samples)
        low_expr == Slice(matrix.rows[IF i > 1 THEN i - 1 ELSE i], low_samples)
        clean_id == BeforeDot(gene_id)
    IN  IF Len(high_expr) < 3 \/ Len(low_expr) < 3 THEN <<>>
        ELSE << [gene_id |-> gene_id,
                 gene_symbol |-> DictGet(symbols, clean_id, clean_id),
                 log2_fold_change |-> web_log2fc(high_expr, low_expr),
                 p_value |-> ttest_ind(high_expr, low_expr).pvalue,
                 high_mean |-> Rat(SumSeq(high_expr), Len(high_expr)),
                 low_mean |-> Rat(SumSeq(low_expr), Len(low_expr))] >>

\* one iteration of the loop of PrairieGenomicsWebApp.run_differential_expression:
\* the record appended for gene i, or nothing when a slice has fewer than 3 values
web_gene_record(matrix, symbols, i, high_samples, low_samples) ==
    LET gene_id == matrix.index[i]
        high_expr == Slice(matrix.rows[i], high_samples)
        low_expr == Slice(matrix.rows[i], low_samples)
        clean_id == BeforeDot(gene_id)
    IN  IF Len(high_expr) < 3 \/ Len(low_expr) < 3 THEN <<>>
        ELSE << [gene_id |-> gene_id,
                 gene_symbol |-> DictGet(symbols, clean_id, clean_id),
                 log2_fold_change |-> web_log2fc(high_expr, low_expr),
                 p_value |-> ttest_ind(high_expr, low_expr).pvalue,
                 high_mean |-> Rat(SumSeq(high_expr), Len(high_expr)),
                 low_mean |-> Rat(SumSeq(low_expr), Len(low_expr))] >>

\* PrairieGenomicsWebApp.run_differential_expression: the rows of the data
\* frame, in matrix order (the standard deviation columns are left out)
RECURSIVE web_de_loop(_, _, _, _, _)
web_de_loop(matrix, symbols, i, high_samples, low_samples) ==
    IF i > Len(matrix.index) THEN <<>>
    ELSE web_gene_record(matrix, symbols, i, high_samples, low_samples)
         \o web_de_loop(matrix, symbols, i + 1, high_samples, low_samples)

run_differential_expression(matrix, symbols, high_samples, low_samples) ==
    web_de_loop(matrix, symbols, 1, high_samples, low_samples)

\* conditions whose second test looks at the size of the fold change only
conditions_by_size(adj_p_value, log2_fold_change, p_threshold, fc_threshold) ==
    << FLt(adj_p_value, p_threshold) /\ Log2Gt(log2_fold_change, fc_threshold),
       FLt(adj_p_value, p_threshold)
         /\ (Log2Gt(log2_fold_change, fc_threshold)
               \/ Log2LtNeg(log2_fold_change, fc_threshold)) >>

\* the two conditions of analysis_section and of create_volcano_plot:
\* (adj_p_value < p) & (log2_fold_change > fc), (adj_p_value < p) & (... < -fc)
conditions(adj_p_value, log2_fold_change, p_threshold, fc_threshold) ==
    << FLt(adj_p_value, p_threshold) /\ Log2Gt(log2_fold_change, fc_threshold),
       FLt(adj_p_value, p_threshold) /\ Log2LtNeg(log2_fold_change, fc_threshold) >>

\* a labelling that counts a value equal to its threshold as passing it
significance_inclusive(adj_p_value, log2_fold_change, p_threshold, fc_threshold) ==
    IF FLeq(adj_p_value, p_threshold)
       /\ log2_fold_change.num >= Pow2(fc_threshold) * log2_fold_change.den
    THEN "up"
    ELSE IF FLeq(adj_p_value, p_threshold)
            /\ log2_fold_change.den >= Pow2(fc_threshold) * log2_fold_change.num
    THEN "down"
    ELSE "ns"

\* np.select(conditions, ['up', 'down'], default='ns') of analysis_section
significance(adj_p_value, log2_fold_change, p_threshold, fc_threshold) ==
    IF FLt(adj_p_value, p_threshold) /\ Log2Gt(log2_fold_change, fc_threshold)
    THEN "up"
    ELSE IF FLt(adj_p_value, p_threshold) /\ Log2LtNeg(log2_fold_change, fc_threshold)
    THEN "down"
    ELSE "ns"

\* np.select(conditions, ['Upregulated', 'Downregulated'],
\* default='Not Significant') of create_volcano_plot
volcano_category(adj_p_value, log2_fold_change, p_cutoff, fc_cutoff) ==
    LET c == conditions(adj_p_value, log2_fold_change, p_cutoff, fc_cutoff)
    IN  IF c[1] THEN "Upregulated" ELSE IF c[2] THEN "Downregulated"
        ELSE "Not Significant"

\* a magnitude that keeps the sign
RatSigned(a) == a

\* np.abs
RatAbs(a) == IF a[1] < 0 THEN RatNeg(a) ELSE a

\* the summary of differential_expression_section: the significant rows
\* (padj < p and |log2FoldChange| > fc) and how many of them are up and down
enhanced_summary(results, p_threshold, fc_threshold) ==
    LET significant ==
            SelectSeq(results,
                      LAMBDA r : /\ FLt(r.padj, p_threshold)
                                 /\ RatLt(RatOfInt(fc_threshold), RatAbs(r.log2FoldChange)))
    IN  [significant |-> significant,
         up_genes |-> Len(SelectSeq(significant,
                                    LAMBDA r : RatLt(RatOfInt(0), r.log2FoldChange))),
         down_genes |-> Len(SelectSeq(significant,
                                      LAMBDA r : RatLt(r.log2FoldChange, RatOfInt(0))))]

\* de_results.sort_values('adj_p_value')
sort_values(table) ==
    LET order == SortIdx([k \in 1..Len(table) |-> table[k].adj_p_value], 1)
    IN  [k \in 1..Len(table) |-> table[order[k]]]

\* design_matrix['condition'].unique(): the labels in order of first appearance
RECURSIVE Unique(_)
Unique(labels) ==
    IF labels = <<>> THEN <<>>
    ELSE LET front == Unique(SubSeq(labels, 1, Len(labels) - 1))
             x == labels[Len(labels)]
         IN  IF \E k \in 1..Len(front) : front[k] = x THEN front
             ELSE Append(front, x)

\* design_matrix[design_matrix['condition'] == g].index
SamplesOf(design, g) == SelectSeq([i \in 1..Len(design) |-> i], LAMBDA i : design[i] = g)

LogRow(expr) == [k \in 1..Len(expr) |-> Log2(expr[k] + 1)]

\* a loop body that takes the second label as the reference group
simple_gene_record_swapped(matrix, i, group1_samples, group2_samples) ==
    LET log_expr1 == LogRow(Slice(matrix.rows[i], group1_samples))
        log_expr2 == LogRow(Slice(matrix.rows[i], group2_samples))
        test == ttest_ind(log_expr1, log_expr2)
    IN  [gene_id |-> matrix.index[i],
         baseMean |-> Rat(SumSeq(matrix.rows[i]), Len(matrix.rows[i])),
         log2FoldChange |-> RatSub(Rat(SumSeq(log_expr1), Len(log_expr1)),
                                   Rat(SumSeq(log_expr2), Len(log_expr2))),
         stat |-> [sign |-> test.sign, sq |-> test.sq],
         pvalue |-> test.pvalue]

\* one iteration of the loop of run_simple_differential_expression
simple_gene_record(matrix, i, group1_samples, group2_samples) ==
    LET log_expr1 == LogRow(Slice(matrix.rows[i], group1_samples))
        log_expr2 == LogRow(Slice(matrix.rows[i], group2_samples))
        test == ttest_ind(log_expr2, log_expr1)
    IN  [gene_id |-> matrix.index[i],
         baseMean |-> Rat(SumSeq(matrix.rows[i]), Len(matrix.rows[i])),
         log2FoldChange |-> RatSub(Rat(SumSeq(log_expr2), Len(log_expr2)),
                                   Rat(SumSeq(log_expr1), Len(log_expr1))),
         stat |-> [sign |-> test.sign, sq |-> test.sq],
         pvalue |-> test.pvalue]

\* a fallback that only refuses a single label and compares the first two
\* labels of a design with more
run_simple_differential_expression_first_two(matrix, design) ==
    LET groups == Unique(design)
    IN  IF Len(groups) < 2 THEN Raised("ValueError: Simple DE requires exactly 2 groups")
        ELSE LET group1_samples == SamplesOf(design, groups[1])
                 group2_samples == SamplesOf(design, groups[2])
                 results == [i \in 1..Len(matrix.index) |->
                               simple_gene_record(matrix, i, group1_samples, group2_samples)]
                 padj == multipletests([i \in 1..Len(results) |-> results[i].pvalue])
             IN  Returned([i \in 1..Len(results) |->
                             [gene_id |-> results[i].gene_id,
                              baseMean |-> results[i].baseMean,
                              log2FoldChange |-> results[i].log2FoldChange,
                              stat |-> results[i].stat,
                              pvalue |-> results[i].pvalue,
                              padj |-> padj[i]]])

\* PrairieGenomicsEnhanced.run_simple_differential_expression: ValueError
\* unless the design has exactly two labels; the table is in matrix order
run_simple_differential_expression(matrix, design) ==
    LET groups == Unique(design)
    IN  IF Len(groups) # 2 THEN Raised("ValueError: Simple DE requires exactly 2 groups")
        ELSE LET group1_samples == SamplesOf(design, groups[1])
                 group2_samples == SamplesOf(design, groups[2])
                 results == [i \in 1..Len(matrix.index) |->
                               simple_gene_record(matrix, i, group1_samples, group2_samples)]
                 padj == multipletests([i \in 1..Len(results) |-> results[i].pvalue])
             IN  Returned([i \in 1..Len(results) |->
                             [gene_id |-> results[i].gene_id,
                              baseMean |-> results[i].baseMean,
                              log2FoldChange |-> results[i].log2FoldChange,
                              stat |-> results[i].stat,
                              pvalue |-> results[i].pvalue,
                              padj |-> padj[i]]])

-----------------------------------------------------------------------------
(* The analysis handlers.  Each returns what the button handler did: the     *)
(* calls it made in order (steps), the resolved gene, the groups, the genes  *)
(* that got a record, the error it showed, and the table it stored if any.   *)

Run(outcome, error, steps, gene_id, groups, tested, table) ==
    [outcome |-> outcome, error |-> error, steps |-> steps, gene_id |-> gene_id,
     groups |-> groups, tested |-> tested, table |-> table]

GeneIds(table) == [k \in 1..Len(table) |-> table[k].gene_id]

\* PrairieGenomicsWebApp.analysis_section, the body of the Run button
web_analysis(matrix, symbols, target_gene, grouping_method, p_threshold, fc_threshold) ==
    LET target_gene_id == find_target_gene(target_gene, symbols, matrix.index)
    IN
    IF IsNone(target_gene_id)
    THEN Run("not_found", "Could not find target gene in expression data",
             <<"find_target_gene">>, None, None, <<>>, None)
    ELSE
    LET grouped == group_samples(RowOf(matrix, The(target_gene_id)), grouping_method)
    IN
    IF grouped.raised
    THEN Run("failed", grouped.error, <<"find_target_gene", "group_samples">>,
             target_gene_id, None, <<>>, None)
    ELSE
    LET high_samples == grouped.value.high
        low_samples == grouped.value.low
        de == run_differential_expression(matrix, symbols, high_samples, low_samples)
        steps3 == <<"find_target_gene", "group_samples", "run_differential_expression">>
    IN
    IF de = <<>>
    THEN Run("failed", "KeyError: p_value", steps3,
             target_gene_id, Some(grouped.value), <<>>, None)
    ELSE
    LET adj == false_discovery_control([k \in 1..Len(de) |-> de[k].p_value])
        steps4 == Append(steps3, "false_discovery_control")
    IN
    IF adj.raised
    THEN Run("failed", adj.error, steps4,
             target_gene_id, Some(grouped.value), GeneIds(de), None)
    ELSE
    LET labelled == [k \in 1..Len(de) |->
                       [gene_id |-> de[k].gene_id,
                        gene_symbol |-> de[k].gene_symbol,
                        log2_fold_change |-> de[k].log2_fold_change,
                        p_value |-> de[k].p_value,
                        high_mean |-> de[k].high_mean,
                        low_mean |-> de[k].low_mean,
                        adj_p_value |-> adj.value[k],
                        significance |-> significance(adj.value[k], de[k].log2_fold_change,
                                                      p_threshold, fc_threshold)]]
    IN  Run("ok", "", steps4 \o <<"significance", "sort_values", "store">>,
            target_gene_id, Some(grouped.value), GeneIds(de), Some(sort_values(labelled)))

\* results['gene_symbol'] = results.index.map(...), only with a non-empty map
add_gene_symbols(table, symbols) ==
    [k \in 1..Len(table) |->
        [gene_id |-> table[k].gene_id,
         baseMean |-> table[k].baseMean,
         log2FoldChange |-> table[k].log2FoldChange,
         stat |-> table[k].stat,
         pvalue |-> table[k].pvalue,
         padj |-> table[k].padj,
         gene_symbol |-> IF symbols # <<>>
                         THEN Some(DictGet(symbols, BeforeDot(table[k].gene_id),
                                           BeforeDot(table[k].gene_id)))
                         ELSE None]]

\* the columns cols of a matrix, in the order of cols
Columns(matrix, cols) ==
    [index |-> matrix.index,
     rows |-> [i \in 1..Len(matrix.rows) |-> Slice(matrix.rows[i], cols)]]

\* the clinical branch of differential_expression_section: the design is the
\* clinical table indexed by sample_id, restricted to the samples of the matrix
clinical_design(matrix, clinical) ==
    IF IsNone(clinical.sample_id) THEN Raised("KeyError: sample_id")
    ELSE LET n == Len(matrix.rows[1])
             rowsIn == SelectSeq([k \in 1..Len(The(clinical.sample_id)) |-> k],
                                 LAMBDA k : The(clinical.sample_id)[k] \in 1..n)
         IN  Returned([common |-> [k \in 1..Len(rowsIn) |->
                                      The(clinical.sample_id)[rowsIn[k]]],
                       condition |-> IF IsNone(clinical.condition) THEN None
                                     ELSE Some([k \in 1..Len(rowsIn) |->
                                                  The(clinical.condition)[rowsIn[k]]])])

\* PrairieGenomicsEnhanced.differential_expression_section, the body of the
\* Run button with a method that falls to the t-test ("t-test", "limma-voom")
enhanced_analysis(matrix, symbols, clinical, target_gene, grouping_method) ==
    IF ~IsNone(clinical)
    THEN
      LET cd == clinical_design(matrix, The(clinical))
      IN
      IF cd.raised
      THEN Run("failed", cd.error, <<"clinical_design">>, None, None, <<>>, None)
      ELSE IF IsNone(cd.value.condition)
      THEN Run("failed", "KeyError: condition",
               <<"clinical_design", "run_simple_differential_expression">>,
               None, None, <<>>, None)
      ELSE
      LET design == The(cd.value.condition)
          res == run_simple_differential_expression(Columns(matrix, cd.value.common), design)
          steps2 == <<"clinical_design", "run_simple_differential_expression">>
      IN  IF res.raised
          THEN Run("failed", res.error, steps2, None, Some(design), <<>>, None)
          ELSE Run("ok", "", steps2 \o <<"multipletests", "store">>, None, Some(design),
                   GeneIds(res.value), Some(add_gene_symbols(res.value, symbols)))
    ELSE
      LET created == create_expression_groups(matrix, symbols, target_gene, grouping_method)
      IN
      IF created.raised
      THEN Run("not_found", created.error, <<"create_expression_groups">>,
               None, None, <<>>, None)
      ELSE
      LET design == created.value
          res == run_simple_differential_expression(matrix, design)
          steps2 == <<"create_expression_groups", "run_simple_differential_expression">>
          gene_id == lookup_gene_id(target_gene, symbols, matrix.index)
      IN  IF res.raised
          THEN Run("failed", res.error, steps2, gene_id, Some(design), <<>>, None)
          ELSE Run("ok", "", steps2 \o <<"multipletests", "store">>, gene_id, Some(design),
                   GeneIds(res.value), Some(add_gene_symbols(res.value, symbols)))

-----------------------------------------------------------------------------
(* Inputs *)

sTP == <<"T", "P">>
stp == <<"t", "p">>
sTp == <<"T", "p">>
sMY == <<"M", "Y">>
sE1 == <<"E", "1">>
sE2 == <<"E", "2">>
sE9 == <<"E", "9">>
kE1 == <<"E", "1", ".", "3">>
kE10 == <<"E", "1", "0", ".", "2">>
kE2 == <<"E", "2", ".", "1">>
ktpx == <<"t", "p", "x">>

Entry(id, symbol) == [id |-> id, symbol |-> symbol]
Matrix(index, rows) == [index |-> index, rows |-> rows]

\* the inputs of the resolver specification
KeyPool == {kE1, kE10, kE2, ktpx}
IdPool == {sE1, sE2, sE9}
SymbolPool == {sTP, stp, sMY}
TargetPool == {sTP, stp, sTp, sMY, sE1}
IndexPool == {ks \in SeqsOf(KeyPool, 0, MaxKeys) : Distinct(ks)}
MapPool ==
    {m \in SeqsOf({Entry(i, y) : i \in IdPool, y \in SymbolPool}, 0, MaxMapLen) :
        \A j, k \in DOMAIN m : j # k => m[j].id # m[k].id}

\* the inputs of the stratifier specification
RowPool == SeqsOf(Values, 1, MaxSamples)

\* the matrices, symbol maps, clinical tables and parameters of the sessions
SessionMatrices ==
    { Matrix(<<kE10, kE1, kE2>>,
             << <<3, 3, 3, 3, 3, 3>>, <<0, 1, 1, 3, 7, 7>>, <<1, 0, 1, 7, 3, 7>> >>),
      Matrix(<<kE10, kE1>>,
             << <<7, 3, 7, 0, 1, 1>>, <<0, 1, 1, 3, 7, 7>> >>),
      Matrix(<<sTP, kE2>>,
             << <<7, 0, 3, 1>>, <<1, 0, 3, 7>> >>),
      Matrix(<<kE1, kE2>>,
             << <<0, 0, 0, 1, 7, 7, 7>>, <<1, 0, 1, 3, 7, 3, 7>> >>) }

\* the 4-gene x 6-sample example: A is 10 in every sample, B is 10 in samples
\* 1-3 and 100 in samples 4-6, C is constant, and the last gene, which the
\* target tp names, is [1, 2, 3, 4, 5, 6].  Its values are not of the form
\* 2^k - 1, so it is an input of the web app only, which takes no logarithm
\* of the values.
sA == <<"A">>
sB == <<"B">>
sC == <<"C">>
ExampleMatrix ==
    Matrix(<<sA, sB, sC, sTP>>,
           << <<10, 10, 10, 10, 10, 10>>, <<10, 10, 10, 100, 100, 100>>,
              <<5, 5, 5, 5, 5, 5>>, <<1, 2, 3, 4, 5, 6>> >>)

WebMatrices == SessionMatrices \cup {ExampleMatrix}

SessionMaps ==
    { <<Entry(sE1, sTP)>>,
      <<Entry(sE9, sTP), Entry(sE2, stp)>> }

SessionTargets == {stp, sE2, sMY}

ClinicalTables ==
    { [sample_id |-> Some(<<1, 2, 3, 4, 5, 6>>),
       condition |-> Some(<<"A", "A", "A", "B", "B", "B">>)] }

\* the values typed into the two custom-threshold inputs
CutPool == {[high_threshold |-> 3, low_threshold |-> 1]}

PThresholds == {Rat(50, 1000)}
FcThresholds == {1}

-----------------------------------------------------------------------------
(* The sessions *)

Init ==
    /\ app \in Apps
    /\ expression_data = None
    /\ clinical_data = None
    /\ gene_symbols = <<>>
    /\ de_results = None
    /\ last = [op |-> "init"]

\* a load that drops the table computed from the matrix it replaces
WebLoadUploadedClearing ==
    /\ app = "web"
    /\ \E m \in WebMatrices, c \in {None} \cup {Some(t) : t \in ClinicalTables} :
          /\ expression_data' = Some(m)
          /\ clinical_data' = IF IsNone(c) THEN clinical_data ELSE c
    /\ de_results' = None
    /\ last' = [op |-> "load"]
    /\ UNCHANGED <<app, gene_symbols>>

\* web app, "Load Uploaded Files": the expression file and, if given, the clinical file
WebLoadUploaded ==
    /\ app = "web"
    /\ \E m \in WebMatrices, c \in {None} \cup {Some(t) : t \in ClinicalTables} :
          /\ expression_data' = Some(m)
          /\ clinical_data' = IF IsNone(c) THEN clinical_data ELSE c
    /\ last' = [op |-> "load"]
    /\ UNCHANGED <<app, gene_symbols, de_results>>

\* web app, "Load TCGA Sample Data" and "Load from Paths": both tables are replaced
WebLoadBoth ==
    /\ app = "web"
    /\ \E m \in WebMatrices, t \in ClinicalTables :
          /\ expression_data' = Some(m)
          /\ clinical_data' = Some(t)
    /\ last' = [op |-> "load"]
    /\ UNCHANGED <<app, gene_symbols, de_results>>

\* web app, "Start Gene Conversion": the map is keyed by the cleaned identifiers
\* of rows of the current matrix
WebGeneConversion ==
    /\ app = "web"
    /\ ~IsNone(expression_data)
    /\ \E m \in SessionMaps \cup {<<>>} :
          /\ \A k \in DOMAIN m :
                \E i \in DOMAIN The(expression_data).index :
                    m[k].id = BeforeDot(The(expression_data).index[i])
          /\ gene_symbols' = m
    /\ last' = [op |-> "convert"]
    /\ UNCHANGED <<app, expression_data, clinical_data, de_results>>

\* a Run button that clears the stored table when the run fails
WebRunAnalysisClearing ==
    /\ app = "web"
    /\ ~IsNone(expression_data)
    /\ \E target_gene \in SessionTargets, grouping_method \in WebMethods,
          p_threshold \in PThresholds, fc_threshold \in FcThresholds, cuts \in CutPool :
          LET run == web_analysis(The(expression_data), gene_symbols, target_gene,
                                  grouping_method, p_threshold, fc_threshold)
          IN  /\ de_results' = run.table
              /\ last' = [op |-> "analysis", target_gene |-> target_gene,
                          grouping_method |-> grouping_method,
                          p_threshold |-> p_threshold, fc_threshold |-> fc_threshold,
                          cuts |-> IF grouping_method = CustomThresholds THEN Some(cuts)
                                   ELSE None,
                          matrix |-> The(expression_data), symbols |-> gene_symbols,
                          clinical |-> clinical_data, run |-> run]
    /\ UNCHANGED <<app, expression_data, clinical_data, gene_symbols>>

\* web app, "Run Differential Expression Analysis"
WebRunAnalysis ==
    /\ app = "web"
    /\ ~IsNone(expression_data)
    /\ \E target_gene \in SessionTargets, grouping_method \in WebMethods,
          p_threshold \in PThresholds, fc_threshold \in FcThresholds, cuts \in CutPool :
          LET run == web_analysis(The(expression_data), gene_symbols, target_gene,
                                  grouping_method, p_threshold, fc_threshold)
          IN  /\ de_results' = IF run.outcome = "ok" THEN run.table ELSE de_results
              /\ last' = [op |-> "analysis", target_gene |-> target_gene,
                          grouping_method |-> grouping_method,
                          p_threshold |-> p_threshold, fc_threshold |-> fc_threshold,
                          cuts |-> IF grouping_method = CustomThresholds THEN Some(cuts)
                                   ELSE None,
                          matrix |-> The(expression_data), symbols |-> gene_symbols,
                          clinical |-> clinical_data, run |-> run]
    /\ UNCHANGED <<app, expression_data, clinical_data, gene_symbols>>

\* enhanced app, handle_file_upload: the expression file
EnhLoadExpression ==
    /\ app = "enhanced"
    /\ \E m \in SessionMatrices : expression_data' = Some(m)
    /\ last' = [op |-> "load"]
    /\ UNCHANGED <<app, clinical_data, gene_symbols, de_results>>

\* enhanced app, handle_file_upload: the clinical file
EnhLoadClinical ==
    /\ app = "enhanced"
    /\ \E t \in ClinicalTables : clinical_data' = Some(t)
    /\ last' = [op |-> "load"]
    /\ UNCHANGED <<app, expression_data, gene_symbols, de_results>>

\* enhanced app, gene conversion: the map the converter returns
EnhGeneConversion ==
    /\ app = "enhanced"
    /\ ~IsNone(expression_data)
    /\ \E m \in SessionMaps \cup {<<>>} : gene_symbols' = m
    /\ last' = [op |-> "convert"]
    /\ UNCHANGED <<app, expression_data, clinical_data, de_results>>

\* enhanced app, "Run Differential Expression Analysis" with the t-test fallback
EnhRunAnalysis ==
    /\ app = "enhanced"
    /\ ~IsNone(expression_data)
    /\ \E target_gene \in SessionTargets, grouping_method \in EnhancedMethods :
          LET run == enhanced_analysis(The(expression_data), gene_symbols, clinical_data,
                                       target_gene, grouping_method)
          IN  /\ de_results' = IF run.outcome = "ok" THEN run.table ELSE de_results
              /\ last' = [op |-> "analysis", target_gene |-> target_gene,
                          grouping_method |-> grouping_method,
                          matrix |-> The(expression_data), symbols |-> gene_symbols,
                          clinical |-> clinical_data, run |-> run]
    /\ UNCHANGED <<app, expression_data, clinical_data, gene_symbols>>

Next ==
    \/ WebLoadUploaded
    \/ WebLoadBoth
    \/ WebGeneConversion
    \/ WebRunAnalysis
    \/ EnhLoadExpression
    \/ EnhLoadClinical
    \/ EnhGeneConversion
    \/ EnhRunAnalysis

Spec == Init /\ [][Next]_vars

-----------------------------------------------------------------------------
(* The resolver on its own: every index and symbol map of the pools, and the *)
(* two copies of the lookup applied to every target                          *)

InitResolve ==
    /\ app \in Apps
    /\ expression_data \in
          {Some(Matrix(ix, [i \in 1..Len(ix) |-> <<0>>])) : ix \in IndexPool}
    /\ clinical_data = None
    /\ gene_symbols \in MapPool
    /\ de_results = None
    /\ last = [op |-> "init"]

CallFindTargetGene ==
    /\ app = "web"
    /\ \E target_gene \in TargetPool :
          last' = [op |-> "find_target_gene", target_gene |-> target_gene,
                   result |-> find_target_gene(target_gene, gene_symbols,
                                               The(expression_data).index)]
    /\ UNCHANGED <<app, expression_data, clinical_data, gene_symbols, de_results>>

CallLookupGeneId ==
    /\ app = "enhanced"
    /\ \E target_gene \in TargetPool :
          last' = [op |-> "lookup_gene_id", target_gene |-> target_gene,
                   result |-> lookup_gene_id(target_gene, gene_symbols,
                                             The(expression_data).index)]
    /\ UNCHANGED <<app, expression_data, clinical_data, gene_symbols, de_results>>

\* enhanced app, the survival section: the expression of the target gene
CallFindGeneExpression ==
    /\ app = "enhanced"
    /\ \E target_gene \in TargetPool :
          last' = [op |-> "find_gene_expression", target_gene |-> target_gene,
                   result |-> find_gene_expression(target_gene, gene_symbols,
                                                   The(expression_data))]
    /\ UNCHANGED <<app, expression_data, clinical_data, gene_symbols, de_results>>

NextResolve == CallFindTargetGene \/ CallLookupGeneId \/ CallFindGeneExpression

SpecResolve == InitResolve /\ [][NextResolve]_vars

-----------------------------------------------------------------------------
(* The stratifier on its own: every row of the pool as the target gene's row *)

InitStratify ==
    /\ app \in Apps
    /\ expression_data \in {Some(Matrix(<<sTP>>, <<row>>)) : row \in RowPool}
    /\ clinical_data = None
    /\ gene_symbols = <<>>
    /\ de_results = None
    /\ last = [op |-> "init"]

CallGroupSamples ==
    /\ app = "web"
    /\ \E method \in WebMethods :
          last' = [op |-> "group_samples", method |-> method,
                   row |-> The(expression_data).rows[1],
                   result |-> group_samples(RowOf(The(expression_data), sTP), method)]
    /\ UNCHANGED <<app, expression_data, clinical_data, gene_symbols, de_results>>

CallCreateExpressionGroups ==
    /\ app = "enhanced"
    /\ \E method \in EnhancedMethods :
          last' = [op |-> "create_expression_groups", method |-> method,
                   row |-> The(expression_data).rows[1],
                   result |-> create_expression_groups(The(expression_data), gene_symbols,
                                                       sTP, method)]
    /\ UNCHANGED <<app, expression_data, clinical_data, gene_symbols, de_results>>

NextStratify == CallGroupSamples \/ CallCreateExpressionGroups

SpecStratify == InitStratify /\ [][NextStratify]_vars

-----------------------------------------------------------------------------
(* The corrector on its own: the frame of per-gene results a run has before  *)
(* the correction, one row per gene with its raw p-value, and the statement  *)
(* of each app that adds the column of adjusted p-values                     *)

\* raw p-values in thousandths, and the NaN of an undefined statistic
PPool == {Rat(k, 1000) : k \in {0, 1, 10, 20, 50, 400, 1000}} \cup {NaN}

FramePool ==
    {[k \in 1..Len(ps) |-> [gene_id |-> k, p_value |-> ps[k]]] :
        ps \in SeqsOf(PPool, 1, MaxTests)}

\* de_results['adj_p_value'] = false_discovery_control(de_results['p_value'])
attach_adj_p_value(frame) ==
    LET adj == false_discovery_control([k \in 1..Len(frame) |-> frame[k].p_value])
    IN  IF adj.raised THEN adj
        ELSE Returned([k \in 1..Len(frame) |->
                         [gene_id |-> frame[k].gene_id,
                          p_value |-> frame[k].p_value,
                          adj_p_value |-> adj.value[k]]])

\* _, padj, _, _ = multipletests(results_df['pvalue'], method='fdr_bh');
\* results_df['padj'] = padj (the columns keep the names of the web frame)
attach_padj(frame) ==
    LET padj == multipletests([k \in 1..Len(frame) |-> frame[k].p_value])
    IN  Returned([k \in 1..Len(frame) |->
                    [gene_id |-> frame[k].gene_id,
                     p_value |-> frame[k].p_value,
                     adj_p_value |-> padj[k]]])

InitCorrect ==
    /\ app \in Apps
    /\ expression_data = None
    /\ clinical_data = None
    /\ gene_symbols = <<>>
    /\ de_results \in {Some(f) : f \in FramePool}
    /\ last = [op |-> "init"]

CallFalseDiscoveryControl ==
    /\ app = "web"
    /\ last' = [op |-> "false_discovery_control", frame |-> The(de_results),
                result |-> attach_adj_p_value(The(de_results))]
    /\ UNCHANGED <<app, expression_data, clinical_data, gene_symbols, de_results>>

CallMultipletests ==
    /\ app = "enhanced"
    /\ last' = [op |-> "multipletests", frame |-> The(de_results),
                result |-> attach_padj(The(de_results))]
    /\ UNCHANGED <<app, expression_data, clinical_data, gene_symbols, de_results>>

NextCorrect == CallFalseDiscoveryControl \/ CallMultipletests

SpecCorrect == InitCorrect /\ [][NextCorrect]_vars

-----------------------------------------------------------------------------
(* The classifier on its own: a one-row table of either app, and the         *)
(* statements that label it or count it with the thresholds of the widgets   *)

\* adjusted p-values, 0.05 in two forms: as typed and as a correction gives it
AdjPool == {Rat(0, 1000), Rat(10, 1000), Rat(50, 1000), Rat(100, 2000), Rat(1, 1)}

\* fold changes of the web app, as the ratio whose log2 is the column value
RatioPool ==
    {[num |-> n, den |-> 1] : n \in 1..5} \cup {[num |-> 1, den |-> n] : n \in 2..5}

\* fold changes of the enhanced app: differences of means of logs
DiffPool == {Rat(n, d) : n \in {-8, -6, -3, 0, 3, 6, 8}, d \in {3}}

PCutPool == {Rat(10, 1000), Rat(50, 1000)}
FcCutPool == {1, 2}

InitClassify ==
    /\ app \in Apps
    /\ expression_data = None
    /\ clinical_data = None
    /\ gene_symbols = <<>>
    /\ de_results \in
          IF app = "web"
          THEN {Some(<<[gene_id |-> 1, adj_p_value |-> a, log2_fold_change |-> r]>>) :
                   a \in AdjPool, r \in RatioPool}
          ELSE {Some(<<[gene_id |-> 1, padj |-> a, log2FoldChange |-> x]>>) :
                   a \in AdjPool \cup {NaN}, x \in DiffPool}
    /\ last = [op |-> "init"]

\* analysis_section: the significance column
CallSignificance ==
    /\ app = "web"
    /\ \E p_threshold \in PCutPool, fc_threshold \in FcCutPool :
          LET rec == The(de_results)[1]
          IN  last' = [op |-> "significance", record |-> rec,
                       p_threshold |-> p_threshold, fc_threshold |-> fc_threshold,
                       conditions |-> conditions(rec.adj_p_value, rec.log2_fold_change,
                                                 p_threshold, fc_threshold),
                       label |-> significance(rec.adj_p_value, rec.log2_fold_change,
                                              p_threshold, fc_threshold)]
    /\ UNCHANGED <<app, expression_data, clinical_data, gene_symbols, de_results>>

\* create_volcano_plot: the Category column
CallVolcanoCategory ==
    /\ app = "web"
    /\ \E p_cutoff \in PCutPool, fc_cutoff \in FcCutPool :
          LET rec == The(de_results)[1]
          IN  last' = [op |-> "volcano", record |-> rec,
                       p_threshold |-> p_cutoff, fc_threshold |-> fc_cutoff,
                       conditions |-> conditions(rec.adj_p_value, rec.log2_fold_change,
                                                 p_cutoff, fc_cutoff),
                       label |-> volcano_category(rec.adj_p_value, rec.log2_fold_change,
                                                  p_cutoff, fc_cutoff)]
    /\ UNCHANGED <<app, expression_data, clinical_data, gene_symbols, de_results>>

\* differential_expression_section: the results summary
CallSummary ==
    /\ app = "enhanced"
    /\ \E p_threshold \in PCutPool, fc_threshold \in FcCutPool :
          last' = [op |-> "summary", record |-> The(de_results)[1],
                   p_threshold |-> p_threshold, fc_threshold |-> fc_threshold,
                   summary |-> enhanced_summary(The(de_results), p_threshold, fc_threshold)]
    /\ UNCHANGED <<app, expression_data, clinical_data, gene_symbols, de_results>>

NextClassify == CallSignificance \/ CallVolcanoCategory \/ CallSummary

SpecClassify == InitClassify /\ [][NextClassify]_vars

-----------------------------------------------------------------------------
(* Repeated runs: a session in which the matrix is reloaded, the map is      *)
(* converted again and the Run button is pressed any number of times.  The   *)
(* observation keeps the parameters and the outcome of the session's first   *)
(* run beside those of the latest one.                                       *)

\* the matrices of the sessions every gene of which varies between the samples
RerunMatrices == {m \in SessionMatrices : \A i \in DOMAIN m.index : m.index[i] # kE10}
RerunMaps == {<<>>, <<Entry(sE1, sTP)>>}
RerunTargets == {stp}

InitRerun ==
    /\ app \in Apps
    /\ expression_data \in {Some(m) : m \in RerunMatrices}
    /\ clinical_data = None
    /\ gene_symbols = <<>>
    /\ de_results = None
    /\ last = [op |-> "init"]

\* either app: the expression file is loaded again
RerunLoadExpression ==
    /\ \E m \in RerunMatrices : expression_data' = Some(m)
    /\ UNCHANGED <<app, clinical_data, gene_symbols, de_results, last>>

\* either app: the gene conversion is run again; in the web app the map is
\* keyed by the cleaned identifiers of rows of the current matrix
RerunGeneConversion ==
    /\ \E m \in RerunMaps :
          /\ app = "web" =>
                \A k \in DOMAIN m :
                    \E i \in DOMAIN The(expression_data).index :
                        m[k].id = BeforeDot(The(expression_data).index[i])
          /\ gene_symbols' = m
    /\ UNCHANGED <<app, expression_data, clinical_data, de_results, last>>

\* the observation of a run: the first run of the session is kept, and
\* whether a run on other inputs has stored a table since
Observed(inputs, run) ==
    [op |-> "analysis", inputs |-> inputs, run |-> run,
     first |-> IF last.op = "init" THEN [inputs |-> inputs, run |-> run]
               ELSE last.first,
     between |-> /\ last.op # "init"
                 /\ \/ last.between
                    \/ inputs # last.first.inputs /\ run.outcome = "ok"]

\* a Run button of the web app that appends the new table to the stored one
RerunWebAppending ==
    /\ app = "web"
    /\ \E target_gene \in RerunTargets, grouping_method \in WebMethods,
          p_threshold \in PThresholds, fc_threshold \in FcThresholds :
          LET fresh == web_analysis(The(expression_data), gene_symbols, target_gene,
                                    grouping_method, p_threshold, fc_threshold)
              run == IF fresh.outcome = "ok" /\ ~IsNone(de_results)
                     THEN [fresh EXCEPT !.table = Some(The(de_results) \o The(fresh.table))]
                     ELSE fresh
          IN  /\ de_results' = IF run.outcome = "ok" THEN run.table ELSE de_results
              /\ last' = Observed([matrix |-> The(expression_data),
                                   symbols |-> gene_symbols,
                                   target_gene |-> target_gene,
                                   grouping_method |-> grouping_method,
                                   p_threshold |-> p_threshold,
                                   fc_threshold |-> fc_threshold], run)
    /\ UNCHANGED <<app, expression_data, clinical_data, gene_symbols>>

\* web app, the Run button
RerunWeb ==
    /\ app = "web"
    /\ \E target_gene \in RerunTargets, grouping_method \in WebMethods,
          p_threshold \in PThresholds, fc_threshold \in FcThresholds :
          LET run == web_analysis(The(expression_data), gene_symbols, target_gene,
                                  grouping_method, p_threshold, fc_threshold)
          IN  /\ de_results' = IF run.outcome = "ok" THEN run.table ELSE de_results
              /\ last' = Observed([matrix |-> The(expression_data),
                                   symbols |-> gene_symbols,
                                   target_gene |-> target_gene,
                                   grouping_method |-> grouping_method,
                                   p_threshold |-> p_threshold,
                                   fc_threshold |-> fc_threshold], run)
    /\ UNCHANGED <<app, expression_data, clinical_data, gene_symbols>>

\* enhanced app, the Run button with the t-test fallback
RerunEnhanced ==
    /\ app = "enhanced"
    /\ \E target_gene \in RerunTargets, grouping_method \in EnhancedMethods :
          LET run == enhanced_analysis(The(expression_data), gene_symbols, clinical_data,
                                       target_gene, grouping_method)
          IN  /\ de_results' = IF run.outcome = "ok" THEN run.table ELSE de_results
              /\ last' = Observed([matrix |-> The(expression_data),
                                   symbols |-> gene_symbols,
                                   target_gene |-> target_gene,
                                   grouping_method |-> grouping_method], run)
    /\ UNCHANGED <<app, expression_data, clinical_data, gene_symbols>>

NextRerun ==
    \/ RerunLoadExpression
    \/ RerunGeneConversion
    \/ RerunWeb
    \/ RerunEnhanced

SpecRerun == InitRerun /\ [][NextRerun]_vars

-----------------------------------------------------------------------------
(* The consumers of the stored table: a session in which, between runs,      *)
(* reloads and conversions, the sections that read de_results are rendered   *)

\* the rows of a table that satisfy a test, by their significance column
Significant(table) == SelectSeq(table, LAMBDA r : r.significance # "ns")
WithLabel(table, label) == SelectSeq(table, LAMBDA r : r.significance = label)

\* the numbers of the analysis summary of results_section, of
\* generate_analysis_report and of the sidebar of the web app
web_summary(table) ==
    [total |-> Len(table),
     significant |-> Len(Significant(table)),
     up |-> Len(WithLabel(Significant(table), "up")),
     down |-> Len(WithLabel(Significant(table), "down"))]

\* plot_data of create_volcano_plot: a copy of the table with its Category column
volcano_plot_data(table, p_cutoff, fc_cutoff) ==
    [k \in DOMAIN table |->
        [gene_id |-> table[k].gene_id,
         gene_symbol |-> table[k].gene_symbol,
         log2_fold_change |-> table[k].log2_fold_change,
         adj_p_value |-> table[k].adj_p_value,
         Category |-> volcano_category(table[k].adj_p_value, table[k].log2_fold_change,
                                       p_cutoff, fc_cutoff)]]

\* create_heatmap: the rows of the current matrix for the first top_n
\* significant genes; .loc raises KeyError for a gene that is not a row
heatmap_rows(table, matrix, top_n) ==
    LET sig_genes == Significant(table)
        top_genes == [k \in 1..Min({top_n, Len(sig_genes)}) |-> sig_genes[k].gene_id]
    IN  IF sig_genes = <<>> THEN Returned(<<>>)
        ELSE IF \E k \in DOMAIN top_genes :
                    \A i \in DOMAIN matrix.index : matrix.index[i] # top_genes[k]
        THEN Raised("KeyError")
        ELSE Returned([k \in DOMAIN top_genes |-> RowOf(matrix, top_genes[k])])

\* the pre-ranked list of pathway_analysis_section: a column of a copy of the
\* table, indexed by display symbol when the map is not empty
RankingMetrics == {"Log2 fold change", "t-statistic"}
gsea_ranking(table, symbols, ranking_metric) ==
    [k \in DOMAIN table |->
        [gene |-> IF symbols # <<>>
                  THEN DictGet(symbols, BeforeDot(table[k].gene_id),
                               BeforeDot(table[k].gene_id))
                  ELSE table[k].gene_id,
         rank |-> IF ranking_metric = "Log2 fold change"
                  THEN table[k].log2FoldChange ELSE table[k].stat]]

InitConsume ==
    /\ app \in Apps
    /\ expression_data \in {Some(m) : m \in RerunMatrices}
    /\ clinical_data = None
    /\ gene_symbols = <<>>
    /\ de_results = None
    /\ last = [op |-> "init"]

\* a volcano plot that adds its Category column to the stored table itself
WebVolcanoInPlace ==
    /\ app = "web"
    /\ ~IsNone(de_results)
    /\ \E p_cutoff \in PCutPool, fc_cutoff \in FcCutPool :
          LET plot_data == volcano_plot_data(The(de_results), p_cutoff, fc_cutoff)
          IN  /\ last' = [op |-> "create_volcano_plot", shown |-> plot_data]
              /\ de_results' = Some(plot_data)
    /\ UNCHANGED <<app, expression_data, clinical_data, gene_symbols>>

\* web app, visualization_section: create_volcano_plot
WebVolcano ==
    /\ app = "web"
    /\ ~IsNone(de_results)
    /\ \E p_cutoff \in PCutPool, fc_cutoff \in FcCutPool :
          last' = [op |-> "create_volcano_plot",
                   shown |-> volcano_plot_data(The(de_results), p_cutoff, fc_cutoff)]
    /\ UNCHANGED <<app, expression_data, clinical_data, gene_symbols, de_results>>

\* web app, visualization_section: create_heatmap
WebHeatmap ==
    /\ app = "web"
    /\ ~IsNone(de_results)
    /\ ~IsNone(expression_data)
    /\ \E top_n \in {1, 2} :
          last' = [op |-> "create_heatmap",
                   shown |-> heatmap_rows(The(de_results), The(expression_data), top_n)]
    /\ UNCHANGED <<app, expression_data, clinical_data, gene_symbols, de_results>>

\* web app, results_section: the summary, the tables and the downloads
WebResults ==
    /\ app = "web"
    /\ ~IsNone(de_results)
    /\ last' = [op |-> "results_section",
                shown |-> [summary |-> web_summary(The(de_results)),
                           all |-> The(de_results),
                           significant |-> Significant(The(de_results))]]
    /\ UNCHANGED <<app, expression_data, clinical_data, gene_symbols, de_results>>

\* web app, generate_analysis_report
WebReport ==
    /\ app = "web"
    /\ ~IsNone(de_results)
    /\ last' = [op |-> "generate_analysis_report",
                shown |-> web_summary(The(de_results))]
    /\ UNCHANGED <<app, expression_data, clinical_data, gene_symbols, de_results>>

\* web app, the sidebar: the count of significant genes
WebSidebar ==
    /\ app = "web"
    /\ ~IsNone(de_results)
    /\ last' = [op |-> "sidebar", shown |-> web_summary(The(de_results)).significant]
    /\ UNCHANGED <<app, expression_data, clinical_data, gene_symbols, de_results>>

\* enhanced app, pathway_analysis_section: the ranked gene list
EnhPathwayRanking ==
    /\ app = "enhanced"
    /\ ~IsNone(de_results)
    /\ \E ranking_metric \in RankingMetrics :
          last' = [op |-> "pathway_ranking",
                   shown |-> gsea_ranking(The(de_results), gene_symbols, ranking_metric)]
    /\ UNCHANGED <<app, expression_data, clinical_data, gene_symbols, de_results>>

\* enhanced app, the sidebar: the count of significant genes at 0.05 and 1.0
EnhSidebar ==
    /\ app = "enhanced"
    /\ ~IsNone(de_results)
    /\ last' = [op |-> "sidebar",
                shown |-> Len(enhanced_summary(The(de_results), Rat(50, 1000), 1).significant)]
    /\ UNCHANGED <<app, expression_data, clinical_data, gene_symbols, de_results>>

\* enhanced app, the sidebar button "Reset All Data"
EnhResetAll ==
    /\ app = "enhanced"
    /\ expression_data' = None
    /\ clinical_data' = None
    /\ gene_symbols' = <<>>
    /\ de_results' = None
    /\ last' = [op |-> "reset"]
    /\ UNCHANGED app

NextConsume ==
    \/ RerunLoadExpression
    \/ RerunGeneConversion
    \/ WebRunAnalysis
    \/ EnhRunAnalysis
    \/ WebVolcano
    \/ WebHeatmap
    \/ WebResults
    \/ WebReport
    \/ WebSidebar
    \/ EnhPathwayRanking
    \/ EnhSidebar
    \/ EnhResetAll

SpecConsume == InitConsume /\ [][NextConsume]_vars

-----------------------------------------------------------------------------
(* Properties of the resolver, checked under SpecResolve *)

\* the entries of the map whose symbol is the target, ignoring case
SymbolMatches(target, symbols) ==
    {k \in DOMAIN symbols :
        Len(symbols[k].symbol) = Len(target)
        /\ \A c \in DOMAIN target :
              UpperChar(symbols[k].symbol[c]) = UpperChar(target[c])}

\* the positions of the row keys that contain id
KeysWith(id, index) == {i \in DOMAIN index : Contains(id, index[i])}

\* the matching entries whose identifier some row key contains
Yielding(target, symbols, index) ==
    {k \in SymbolMatches(target, symbols) : KeysWith(symbols[k].id, index) # {}}

\* the positions of the row keys that contain the target, ignoring case
ScanHits(target, index) ==
    {i \in DOMAIN index :
        \E o \in 0..(Len(index[i]) - Len(target)) :
            \A c \in DOMAIN target : UpperChar(index[i][o + c]) = UpperChar(target[c])}

ResolverCalled == last.op \in {"find_target_gene", "lookup_gene_id"}

\* C1: the result is the first row key (in matrix order) containing the
\* identifier of the first map entry (in map order) whose symbol equals the
\* target ignoring case and whose identifier some row key contains; when no
\* map entry yields a key it is the first row key containing the target
\* ignoring case; and None when there is none either.
C1_ResolveOrder ==
    ResolverCalled =>
        LET index == The(expression_data).index
            y == Yielding(last.target_gene, gene_symbols, index)
            h == ScanHits(last.target_gene, index)
        IN  last.result =
              IF y # {} THEN Some(index[Min(KeysWith(gene_symbols[Min(y)].id, index))])
              ELSE IF h # {} THEN Some(index[Min(h)])
              ELSE None

\* C1 witness: map {E1: TP}, row keys [E10.2, E1.3]: TP resolves to E10.2, and
\* the key tpx that contains the target comes second to the symbol map
C1_Witness ==
    /\ ResolverCalled
    /\ gene_symbols = <<Entry(sE1, sTP)>>
    /\ The(expression_data).index = <<ktpx, kE10, kE1>>
    /\ last.target_gene = sTP
    /\ last.result = Some(kE10)

\* C2 as stated: for every map entry id -> symbol with exactly one row key
\* containing id, every case variant of symbol resolves to that row key.
C2_UniqueKeyOriginal ==
    ResolverCalled =>
        LET index == The(expression_data).index
        IN  \A k \in SymbolMatches(last.target_gene, gene_symbols) :
                Cardinality(KeysWith(gene_symbols[k].id, index)) = 1
                => last.result = Some(index[Min(KeysWith(gene_symbols[k].id, index))])

\* C2 amended: the same, for an entry that no earlier entry with the same
\* symbol (ignoring case) and an identifier contained in a row key precedes.
C2_UniqueKeyFirstEntry ==
    ResolverCalled =>
        LET index == The(expression_data).index
        IN  \A k \in SymbolMatches(last.target_gene, gene_symbols) :
                /\ Cardinality(KeysWith(gene_symbols[k].id, index)) = 1
                /\ \A j \in Yielding(last.target_gene, gene_symbols, index) : j >= k
                => last.result = Some(index[Min(KeysWith(gene_symbols[k].id, index))])

\* C2 witness: map {E1: TP}, row key E1.3 after a key that contains the target:
\* tp resolves to E1.3
C2_Witness ==
    /\ ResolverCalled
    /\ gene_symbols = <<Entry(sE1, sTP)>>
    /\ The(expression_data).index = <<ktpx, kE1>>
    /\ last.target_gene = stp
    /\ last.result = Some(kE1)

-----------------------------------------------------------------------------
(* Properties of an analysis run, checked under Spec *)

Range(s) == {s[i] : i \in DOMAIN s}

\* C3: a run whose target neither the symbol map nor the scan of the row keys
\* resolves ends with a gene-not-found error shown to the user, having made
\* the resolving call only: no groups, no gene tested, de_results left as it was.
C3_NotFoundAborts ==
    [][ ( /\ last'.op = "analysis"
          /\ (app' = "web" \/ IsNone(last'.clinical))
          /\ Yielding(last'.target_gene, last'.symbols, last'.matrix.index) = {}
          /\ ScanHits(last'.target_gene, last'.matrix.index) = {} )
        => /\ last'.run.outcome = "not_found"
           /\ last'.run.error # ""
           /\ last'.run.steps \in {<<"find_target_gene">>, <<"create_expression_groups">>}
           /\ last'.run.groups = None
           /\ last'.run.tested = <<>>
           /\ de_results' = de_results ]_vars

\* C3 witness: the target MY is not found, after an earlier run stored a table
C3_Witness ==
    /\ last.op = "analysis"
    /\ last.target_gene = sMY
    /\ last.run.outcome = "not_found"
    /\ last.run.steps \in {<<"find_target_gene">>, <<"create_expression_groups">>}
    /\ ~IsNone(de_results)

-----------------------------------------------------------------------------
(* Properties of the stratifier, checked under SpecStratify *)

\* the two middle values of a row, by counting: the least value with at least
\* half of the samples at or below it, the greatest with half at or above it
LowerMiddle(row) ==
    Min({row[i] : i \in {j \in DOMAIN row :
            Cardinality({k \in DOMAIN row : row[k] <= row[j]}) >= (Len(row) + 1) \div 2}})
UpperMiddle(row) ==
    Max({row[i] : i \in {j \in DOMAIN row :
            Cardinality({k \in DOMAIN row : row[k] >= row[j]}) >= (Len(row) + 1) \div 2}})

\* v is greater than or equal to the median of the row
AtLeastMedian(row, v) == 2 * v >= LowerMiddle(row) + UpperMiddle(row)

\* C4: a median split puts sample i in High iff row[i] >= the row median and
\* in Low otherwise: the samples tied with the median are High, and every
\* sample is in exactly one of the two groups.
C4_MedianSplit ==
    /\ (last.op = "group_samples" /\ last.method = MedianSplit) =>
          /\ ~last.result.raised
          /\ Len(last.result.value.high) + Len(last.result.value.low) = Len(last.row)
          /\ \A i \in DOMAIN last.row :
                /\ i \in Range(last.result.value.high) <=> AtLeastMedian(last.row, last.row[i])
                /\ i \in Range(last.result.value.low) <=> ~AtLeastMedian(last.row, last.row[i])
    /\ (last.op = "create_expression_groups" /\ last.method = MedianSplit) =>
          /\ ~last.result.raised
          /\ DOMAIN last.result.value = DOMAIN last.row
          /\ \A i \in DOMAIN last.row :
                last.result.value[i] =
                    IF AtLeastMedian(last.row, last.row[i]) THEN "High" ELSE "Low"

\* C4 witness: the row [1, 3, 3]: the two samples tied with the median 3 are
\* High and the third is Low
C4_Witness ==
    /\ last.op = "group_samples"
    /\ last.method = MedianSplit
    /\ last.row = <<1, 3, 3>>
    /\ last.result = Returned([high |-> <<2, 3>>, low |-> <<1>>])

-----------------------------------------------------------------------------
(* Properties of the groups of a run and of the test that follows, checked   *)
(* under SpecStratify (C8) and Spec (the others)                             *)

\* the run of the last step is an analysis that resolved its target gene
ResolvedRun ==
    /\ last.op = "analysis"
    /\ (app = "web" \/ IsNone(last.clinical))
    /\ ~IsNone(last.run.gene_id)

\* the row of the resolved target gene
TargetRow == RowOf(last.matrix, The(last.run.gene_id))

\* the samples of the target row at or above / at or below a cut
SamplesAtOrAbove(row, cut) == {i \in DOMAIN row : RatLeq(cut, RatOfInt(row[i]))}
SamplesAtOrBelow(row, cut) == {i \in DOMAIN row : RatLeq(RatOfInt(row[i]), cut)}

\* the samples the run put in the group named label: the web app returns the
\* two index lists, the enhanced app one label per sample
GroupOf(label) ==
    IF IsNone(last.run.groups) THEN {}
    ELSE IF app = "web"
    THEN Range(IF label = "High" THEN The(last.run.groups).high
               ELSE IF label = "Low" THEN The(last.run.groups).low ELSE <<>>)
    ELSE {i \in DOMAIN The(last.run.groups) : The(last.run.groups)[i] = label}

\* the per-gene test of the run gave a record for every gene of the matrix
TestedEveryGene == last.run.tested = last.matrix.index

\* C5: after a quartile split with disjoint groups of at least 3 samples, High
\* is the samples >= the 75th percentile, Low the samples <= the 25th, and
\* the test runs, on these two groups, for every gene.
C5_QuartileTwoGroups ==
    ( /\ ResolvedRun
      /\ last.grouping_method \in {QuartileSplit, QuartileSplitWeb}
      /\ LET High == SamplesAtOrAbove(TargetRow, Quantile(TargetRow, 3, 4))
             Low == SamplesAtOrBelow(TargetRow, Quantile(TargetRow, 1, 4))
         IN  High \cap Low = {} /\ Cardinality(High) >= 3 /\ Cardinality(Low) >= 3 )
    => /\ GroupOf("High") = SamplesAtOrAbove(TargetRow, Quantile(TargetRow, 3, 4))
       /\ GroupOf("Low") = SamplesAtOrBelow(TargetRow, Quantile(TargetRow, 1, 4))
       /\ TestedEveryGene

\* C6: after a tertile split with disjoint High and Low of at least 3 samples,
\* High is the samples >= the 67th percentile, Low the samples <= the 33rd,
\* the others are Medium, and the run completes with a table for every gene.
C6_TertileHighVsLow ==
    ( /\ ResolvedRun
      /\ last.grouping_method = TertileSplit
      /\ LET High == SamplesAtOrAbove(TargetRow, Quantile(TargetRow, 67, 100))
             Low == SamplesAtOrBelow(TargetRow, Quantile(TargetRow, 33, 100))
         IN  High \cap Low = {} /\ Cardinality(High) >= 3 /\ Cardinality(Low) >= 3 )
    => /\ GroupOf("High") = SamplesAtOrAbove(TargetRow, Quantile(TargetRow, 67, 100))
       /\ GroupOf("Low") = SamplesAtOrBelow(TargetRow, Quantile(TargetRow, 33, 100))
       /\ GroupOf("Medium") = DOMAIN TargetRow \ (GroupOf("High") \cup GroupOf("Low"))
       /\ TestedEveryGene
       /\ last.run.outcome = "ok"
       /\ ~IsNone(last.run.table)

\* C7: a run with custom thresholds groups by the two cuts typed in: High is
\* the samples >= the high cut, Low the samples <= the low cut, and the run
\* reaches the differential test.
C7_CustomCuts ==
    ( /\ ResolvedRun
      /\ app = "web"
      /\ last.grouping_method = CustomThresholds )
    => /\ ~IsNone(last.run.groups)
       /\ GroupOf("High") =
             SamplesAtOrAbove(TargetRow, RatOfInt(The(last.cuts).high_threshold))
       /\ GroupOf("Low") =
             SamplesAtOrBelow(TargetRow, RatOfInt(The(last.cuts).low_threshold))
       /\ \E k \in DOMAIN last.run.steps : last.run.steps[k] = "run_differential_expression"

\* C8: whatever the row and the method, no sample is in two groups and the
\* group sizes sum to at most the number of samples.
C8_AtMostOneGroup ==
    /\ (last.op = "group_samples" /\ ~last.result.raised) =>
          /\ Range(last.result.value.high) \cap Range(last.result.value.low) = {}
          /\ Len(last.result.value.high) + Len(last.result.value.low) <= Len(last.row)
    /\ (last.op = "create_expression_groups" /\ ~last.result.raised) =>
          DOMAIN last.result.value = DOMAIN last.row

\* C9: a run whose High or Low group has fewer than 3 samples fails before any
\* gene is tested; a run with High and Low of exactly 3 samples each, and no
\* other group, tests genes.
C9_MinimumGroupSize ==
    ( ResolvedRun /\ ~IsNone(last.run.groups) )
    => /\ (Cardinality(GroupOf("High")) < 3 \/ Cardinality(GroupOf("Low")) < 3)
            => (last.run.outcome = "failed" /\ last.run.tested = <<>>)
       /\ ( /\ Cardinality(GroupOf("High")) = 3
            /\ Cardinality(GroupOf("Low")) = 3
            /\ GroupOf("High") \cap GroupOf("Low") = {}
            /\ GroupOf("Medium") = {} )
            => last.run.tested # <<>>

\* the mean of log2(x + 1) over the samples of a row
MeanLog(row, samples) ==
    Rat(SumSeq(LogRow(Slice(row, samples))), Len(samples))

\* the samples with a label of the enhanced design, in column order
Labelled(design, label) ==
    SelectSeq([i \in DOMAIN design |-> i], LAMBDA i : design[i] = label)

\* C10: the fold change of every gene of a stored table is the mean of
\* log2(x + 1) over group B minus that over group A.  In the web app B is
\* the High group and A the Low group, and the fold change is compared with
\* the claimed one through the thresholds 0..MaxLog either way; in the
\* enhanced app A and B are the first and second label of the design.
C10_Log2FoldChange ==
    ( ResolvedRun /\ last.run.outcome = "ok" )
    => \A k \in DOMAIN The(last.run.table) :
          LET rec == The(last.run.table)[k]
              row == RowOf(last.matrix, rec.gene_id)
          IN  IF app = "web"
              THEN LET claimed == RatSub(MeanLog(row, The(last.run.groups).high),
                                         MeanLog(row, The(last.run.groups).low))
                   IN  \A t \in 0..MaxLog :
                          /\ Log2Gt(rec.log2_fold_change, t)
                                <=> RatLt(RatOfInt(t), claimed)
                          /\ Log2LtNeg(rec.log2_fold_change, t)
                                <=> RatLt(claimed, RatOfInt(-t))
              ELSE LET labels == Unique(The(last.run.groups))
                       claimed == RatSub(MeanLog(row, Labelled(The(last.run.groups), labels[2])),
                                         MeanLog(row, Labelled(The(last.run.groups), labels[1])))
                   IN  RatEq(rec.log2FoldChange, claimed)

-----------------------------------------------------------------------------
(* Properties of the corrector, checked under SpecCorrect *)

CorrectorCalled == last.op \in {"false_discovery_control", "multipletests"}

\* the raw p-values of the frame given to the correction are all numbers
NumbersOnly == \A k \in DOMAIN last.frame : IsFinite(last.frame[k].p_value)

\* p_k * m / j for the raw p-value of row k, j being its ascending rank: the
\* number of raw p-values less than or equal to it
BHTerm(frame, k) ==
    Rat(frame[k].p_value[1] * Len(frame),
        frame[k].p_value[2]
          * Cardinality({j \in DOMAIN frame : RatLeq(frame[j].p_value, frame[k].p_value)}))

\* x is the Benjamini-Hochberg value of row i: the least of 1 and the terms
\* of the rows whose raw p-value is at least that of row i
IsBHValue(x, frame, i) ==
    LET above == {k \in DOMAIN frame : RatLeq(frame[i].p_value, frame[k].p_value)}
    IN  /\ IsFinite(x)
        /\ RatLeq(x, Rat(1, 1))
        /\ \A k \in above : RatLeq(x, BHTerm(frame, k))
        /\ RatEq(x, Rat(1, 1)) \/ \E k \in above : RatEq(x, BHTerm(frame, k))

\* C11: on a frame of numeric p-values the correction returns, and the frame
\* keeps one row per gene in the order of the input: row k is still gene k
\* with its raw p-value, and its adjusted p-value is the Benjamini-Hochberg
\* value of that raw p-value.
C11_BenjaminiHochberg ==
    (CorrectorCalled /\ NumbersOnly) =>
        /\ ~last.result.raised
        /\ DOMAIN last.result.value = DOMAIN last.frame
        /\ \A k \in DOMAIN last.frame :
              /\ last.result.value[k].gene_id = last.frame[k].gene_id
              /\ last.result.value[k].p_value = last.frame[k].p_value
              /\ IsBHValue(last.result.value[k].adj_p_value, last.frame, k)

\* C11 witness: the raw p-values [0.05, 0.01, 0.4] of genes 1, 2, 3 get the
\* adjusted values [0.075, 0.03, 0.4], in that order
C11_Witness ==
    /\ CorrectorCalled
    /\ [k \in DOMAIN last.frame |-> last.frame[k].p_value]
          = <<Rat(50, 1000), Rat(10, 1000), Rat(400, 1000)>>
    /\ ~last.result.raised
    /\ RatEq(last.result.value[1].adj_p_value, Rat(75, 1000))
    /\ RatEq(last.result.value[2].adj_p_value, Rat(30, 1000))
    /\ RatEq(last.result.value[3].adj_p_value, Rat(400, 1000))

\* C12: on raw p-values in [0, 1] every adjusted p-value is a number in [0, 1]
\* and at least its raw p-value, and the adjusted values keep the order of
\* the raw ones: raw p_a <= raw p_b implies adjusted p_a <= adjusted p_b.
C12_AdjustedDominates ==
    (CorrectorCalled /\ NumbersOnly) =>
        /\ ~last.result.raised
        /\ \A a \in DOMAIN last.frame :
              /\ IsFinite(last.result.value[a].adj_p_value)
              /\ RatLeq(Rat(0, 1), last.result.value[a].adj_p_value)
              /\ RatLeq(last.result.value[a].adj_p_value, Rat(1, 1))
              /\ RatLeq(last.frame[a].p_value, last.result.value[a].adj_p_value)
        /\ \A a, b \in DOMAIN last.frame :
              RatLeq(last.frame[a].p_value, last.frame[b].p_value)
              => RatLeq(last.result.value[a].adj_p_value, last.result.value[b].adj_p_value)

\* C12 witness: the raw p-values [0.01, 0.02, 0.02]: the running minimum
\* brings the first adjusted value from 0.03 down to 0.02, above its raw 0.01
C12_Witness ==
    /\ CorrectorCalled
    /\ [k \in DOMAIN last.frame |-> last.frame[k].p_value]
          = <<Rat(10, 1000), Rat(20, 1000), Rat(20, 1000)>>
    /\ ~last.result.raised
    /\ \A k \in 1..3 : RatEq(last.result.value[k].adj_p_value, Rat(20, 1000))

-----------------------------------------------------------------------------
(* Properties of the classifier, checked under SpecClassify *)

LabelCalled == last.op \in {"significance", "volcano"}

\* the adjusted p-value of the labelled record is below the threshold
BelowP == last.record.adj_p_value[1] * last.p_threshold[2]
            < last.p_threshold[1] * last.record.adj_p_value[2]

\* log2 of the record's ratio is above fc_threshold, or below -fc_threshold
AboveFc == last.record.log2_fold_change.num
             > Pow2(last.fc_threshold) * last.record.log2_fold_change.den
BelowMinusFc == last.record.log2_fold_change.den
                  > Pow2(last.fc_threshold) * last.record.log2_fold_change.num

\* C13: the label of a record is one of three; it is up iff adjusted p <
\* p_threshold and log2FC > fc_threshold, down iff adjusted p < p_threshold
\* and log2FC < -fc_threshold, and not-significant otherwise, so also when
\* adjusted p equals p_threshold or |log2FC| equals fc_threshold.
C13_ThreeLabels ==
    /\ last.op = "significance" =>
          /\ last.label \in {"up", "down", "ns"}
          /\ last.label = "up" <=> (BelowP /\ AboveFc)
          /\ last.label = "down" <=> (BelowP /\ BelowMinusFc)
    /\ last.op = "volcano" =>
          /\ last.label \in {"Upregulated", "Downregulated", "Not Significant"}
          /\ last.label = "Upregulated" <=> (BelowP /\ AboveFc)
          /\ last.label = "Downregulated" <=> (BelowP /\ BelowMinusFc)

\* C13 witness: adjusted p 0.01 below the threshold 0.05 and a fold change of
\* exactly 1 = fc_threshold (ratio 2): the label is ns
C13_Witness ==
    /\ last.op = "significance"
    /\ last.record.adj_p_value = Rat(10, 1000)
    /\ last.p_threshold = Rat(50, 1000)
    /\ last.record.log2_fold_change = [num |-> 2, den |-> 1]
    /\ last.fc_threshold = 1
    /\ last.label = "ns"

\* C14: with thresholds of the widgets' ranges the condition for up and the
\* condition for down are never both true of a record; in the enhanced
\* summary no significant row is counted both up and down.
C14_UpDownExclusive ==
    /\ LabelCalled => ~(last.conditions[1] /\ last.conditions[2])
    /\ last.op = "summary" =>
          last.summary.up_genes + last.summary.down_genes <= Len(last.summary.significant)

\* C14 witness: a record with adjusted p 0 and ratio 1/4 (log2FC = -2) under
\* the thresholds 0.05 and 1: the down condition is true, the up one false
C14_Witness ==
    /\ last.op = "significance"
    /\ last.record.adj_p_value = Rat(0, 1000)
    /\ last.record.log2_fold_change = [num |-> 1, den |-> 4]
    /\ last.p_threshold = Rat(50, 1000)
    /\ last.fc_threshold = 1
    /\ last.conditions = <<FALSE, TRUE>>

-----------------------------------------------------------------------------
(* Properties of the stored table and of failing runs, checked under Spec *)

\* the adjusted p-values of a stored table, in table order
AdjColumn(table) ==
    [k \in DOMAIN table |-> IF app = "web" THEN table[k].adj_p_value ELSE table[k].padj]

\* C15: the table stored by a successful run is in ascending order of
\* adjusted p-value: no record has an adjusted p-value below that of the
\* record before it.
C15_SortedByAdjustedP ==
    (last.op = "analysis" /\ last.run.outcome = "ok") =>
        \A k \in 1..(Len(The(de_results)) - 1) :
            ~FLt(AdjColumn(The(de_results))[k + 1], AdjColumn(The(de_results))[k])

\* C16: a run writes de_results only when it has gone through all its steps,
\* and then with the table of the run, one record for every gene it tested;
\* a run that stops at any earlier step leaves de_results with the value it
\* had before the run.
C16_NoPartialTable ==
    [][ last'.op = "analysis" =>
          IF last'.run.outcome = "ok"
          THEN /\ de_results' = last'.run.table
               /\ last'.run.steps[Len(last'.run.steps)] = "store"
               /\ Len(The(de_results')) = Len(last'.run.tested)
               /\ Range(GeneIds(The(de_results'))) = Range(last'.run.tested)
          ELSE /\ de_results' = de_results
               /\ \A k \in DOMAIN last'.run.steps : last'.run.steps[k] # "store" ]_vars

\* C16 witness: a run that tested genes and then failed, after an earlier run
\* stored a table, which is still there
C16_Witness ==
    /\ last.op = "analysis"
    /\ last.run.outcome = "failed"
    /\ last.run.tested # <<>>
    /\ ~IsNone(de_results)

\* the values of a row at a set of samples are all the same
ConstantOver(row, samples) == \A i, j \in samples : row[i] = row[j]

\* the genes of the run's matrix that are constant over the High and Low samples
DegenerateGenes ==
    {g \in DOMAIN last.matrix.index :
        ConstantOver(last.matrix.rows[g], GroupOf("High") \cup GroupOf("Low"))}

\* C17: a run with disjoint High and Low groups of at least 3 samples, and no
\* other group, on a matrix with a gene that is constant over these samples,
\* completes; its table holds every other gene and not the constant one.
C17_DegenerateGeneOmitted ==
    ( /\ ResolvedRun
      /\ ~IsNone(last.run.groups)
      /\ Cardinality(GroupOf("High")) >= 3
      /\ Cardinality(GroupOf("Low")) >= 3
      /\ GroupOf("High") \cap GroupOf("Low") = {}
      /\ GroupOf("Medium") = {}
      /\ DegenerateGenes # {} )
    => /\ last.run.outcome = "ok"
       /\ Range(GeneIds(The(last.run.table)))
            = {last.matrix.index[g] : g \in DOMAIN last.matrix.index \ DegenerateGenes}

-----------------------------------------------------------------------------
(* Repeated runs, checked under SpecRerun *)

\* the latest run had the matrix, the symbol map, the grouping parameters and
\* the thresholds of the first run of the session
SameInputsAsFirst ==
    /\ last.op = "analysis"
    /\ last.inputs = last.first.inputs

-----------------------------------------------------------------------------
(* The median split of an odd row of distinct values, checked under SpecStratify *)

\* the samples the stratifier call of the last step put in the group label
SplitGroup(label) ==
    IF last.op = "group_samples"
    THEN Range(IF label = "High" THEN last.result.value.high ELSE last.result.value.low)
    ELSE {i \in DOMAIN last.result.value : last.result.value[i] = label}

\* how many samples of the row have a value below that of sample i
NumberBelow(row, i) == Cardinality({j \in DOMAIN row : row[j] < row[i]})

\* C19: on a row of an odd number n of pairwise distinct values the median
\* split puts the sample with (n-1)/2 values below it, and every sample above
\* it, in High and every sample below it in Low: (n+1)/2 High, (n-1)/2 Low.
C19_OddDistinctRow ==
    ( /\ last.op \in {"group_samples", "create_expression_groups"}
      /\ last.method = MedianSplit
      /\ Len(last.row) % 2 = 1
      /\ \A i, j \in DOMAIN last.row : i # j => last.row[i] # last.row[j] )
    => /\ ~last.result.raised
       /\ \A i \in DOMAIN last.row :
             IF NumberBelow(last.row, i) >= (Len(last.row) - 1) \div 2
             THEN i \in SplitGroup("High") /\ i \notin SplitGroup("Low")
             ELSE i \in SplitGroup("Low") /\ i \notin SplitGroup("High")
       /\ Cardinality(SplitGroup("High")) = (Len(last.row) + 1) \div 2
       /\ Cardinality(SplitGroup("Low")) = (Len(last.row) - 1) \div 2

\* C19 witness: the row [7, 0, 3] in the enhanced app: the median 3 and the 7
\* are High, the 0 is Low
C19_Witness ==
    /\ last.op = "create_expression_groups"
    /\ last.method = MedianSplit
    /\ last.row = <<7, 0, 3>>
    /\ last.result = Returned(<<"High", "Low", "High">>)

-----------------------------------------------------------------------------
(* The example matrix, checked under Spec *)

\* C20: a median split of the example matrix on its last gene gives High =
\* samples 4-6 and Low = samples 1-3; the run completes with a table in which
\* gene B is up and the constant genes A and C, if present, are ns.
C20_ExampleMatrix ==
    ( /\ last.op = "analysis"
      /\ app = "web"
      /\ last.matrix = ExampleMatrix
      /\ last.grouping_method = MedianSplit
      /\ last.run.gene_id = Some(sTP) )
    => /\ last.run.groups = Some([high |-> <<4, 5, 6>>, low |-> <<1, 2, 3>>])
       /\ last.run.outcome = "ok"
       /\ \E k \in DOMAIN The(last.run.table) :
             /\ The(last.run.table)[k].gene_id = sB
             /\ The(last.run.table)[k].significance = "up"
       /\ \A k \in DOMAIN The(last.run.table) :
             The(last.run.table)[k].gene_id \in {sA, sC}
             => The(last.run.table)[k].significance = "ns"

-----------------------------------------------------------------------------
(* Properties of the per-gene comparison and of the order of the steps of a  *)
(* run, checked under Spec                                                   *)

\* the run of the last step went into the loop over the genes
ReachedComparison ==
    /\ last.op = "analysis"
    /\ ~IsNone(last.run.groups)
    /\ IF app = "web"
       THEN \E k \in DOMAIN last.run.steps :
                last.run.steps[k] = "run_differential_expression"
       ELSE last.run.outcome = "ok"

\* the numbers of values in the two slices of a gene's row: the same for
\* every gene, since the groups are lists of sample columns
SliceSizes ==
    IF app = "web"
    THEN {Len(The(last.run.groups).high), Len(The(last.run.groups).low)}
    ELSE {Cardinality(GroupOf(g)) : g \in Range(The(last.run.groups))}

\* C21: when a group has fewer than 3 samples the comparison gives no record
\* for any gene; when both groups have at least 3 it gives one record for
\* every gene of the matrix, in matrix order; and never more records than
\* the matrix has rows.
C21_MinimumSliceSize ==
    ReachedComparison =>
        /\ (\E n \in SliceSizes : n < 3) => last.run.tested = <<>>
        /\ (\A n \in SliceSizes : n >= 3) => TestedEveryGene
        /\ Len(last.run.tested) <= Len(last.matrix.index)

\* the raw p-values of a stored table, as the frame given to the correction
RawFrame(table) ==
    [k \in DOMAIN table |->
        [gene_id |-> table[k].gene_id,
         p_value |-> IF app = "web" THEN table[k].p_value ELSE table[k].pvalue]]

\* the place of a step in the run of the last step, 0 when the run did not make it
StepAt(name) ==
    LET at == {k \in DOMAIN last.run.steps : last.run.steps[k] = name}
    IN  IF at = {} THEN 0 ELSE Min(at)

\* the run of the last step corrected p-values that are all numbers
CorrectedRun ==
    /\ last.op = "analysis"
    /\ last.run.outcome = "ok"
    /\ \A k \in DOMAIN The(last.run.table) :
          IsFinite(RawFrame(The(last.run.table))[k].p_value)

\* C22: in a run that corrects, the per-gene loop comes before the
\* correction and the correction before classification and sorting; the
\* table has a record for every gene of the matrix, and every adjusted
\* p-value is the Benjamini-Hochberg value of its raw p-value among the raw
\* p-values of all the records, not of the records before it.
C22_CorrectionAfterAllTests ==
    CorrectedRun =>
        /\ IF app = "web"
           THEN /\ 0 < StepAt("run_differential_expression")
                /\ StepAt("run_differential_expression") < StepAt("false_discovery_control")
                /\ StepAt("false_discovery_control") < StepAt("significance")
                /\ StepAt("false_discovery_control") < StepAt("sort_values")
           ELSE /\ 0 < StepAt("run_simple_differential_expression")
                /\ StepAt("run_simple_differential_expression") < StepAt("multipletests")
        /\ Len(The(last.run.table)) = Len(last.run.tested)
        /\ Range(GeneIds(The(last.run.table))) = Range(last.run.tested)
        /\ \A k \in DOMAIN The(last.run.table) :
              IsBHValue(AdjColumn(The(last.run.table))[k], RawFrame(The(last.run.table)), k)

\* C22 witness: a run in which a record has a raw p-value above 0 and below
\* that of a later record of the loop, and an adjusted value that differs
\* from its raw one: its adjusted value depends on the later record
C22_Witness ==
    /\ CorrectedRun
    /\ \E j, k \in DOMAIN The(last.run.table) :
          LET at(i) == CHOOSE r \in DOMAIN The(last.run.table) :
                          The(last.run.table)[r].gene_id = last.run.tested[i]
              raw(i) == RawFrame(The(last.run.table))[at(i)].p_value
              adj(i) == AdjColumn(The(last.run.table))[at(i)]
          IN  /\ j < k
              /\ RatLt(Rat(0, 1), raw(j))
              /\ RatLt(raw(j), raw(k))
              /\ ~RatEq(adj(j), raw(j))

\* the matrix the comparison of the last run read: in the clinical branch of
\* the enhanced app, the columns of the samples the clinical table names
ComparedMatrix ==
    IF app = "enhanced" /\ ~IsNone(last.clinical)
    THEN Columns(last.matrix, clinical_design(last.matrix, The(last.clinical)).value.common)
    ELSE last.matrix

\* the matrix with the one row i, and the matrix with its rows in reverse
OnlyRow(matrix, i) == Matrix(<<matrix.index[i]>>, <<matrix.rows[i]>>)
Reversed(matrix) ==
    Matrix([k \in DOMAIN matrix.index |-> matrix.index[Len(matrix.index) + 1 - k]],
           [k \in DOMAIN matrix.rows |-> matrix.rows[Len(matrix.rows) + 1 - k]])

\* what the per-gene loop put in a record of the stored table
TestFields(r) ==
    IF app = "web"
    THEN [gene_id |-> r.gene_id, gene_symbol |-> r.gene_symbol,
          log2_fold_change |-> r.log2_fold_change, p_value |-> r.p_value,
          high_mean |-> r.high_mean, low_mean |-> r.low_mean]
    ELSE [gene_id |-> r.gene_id, baseMean |-> r.baseMean,
          log2FoldChange |-> r.log2FoldChange, stat |-> r.stat, pvalue |-> r.pvalue]

\* the record the loop body gives for row i of a matrix, with the groups of
\* the last run
RecordOf(matrix, i) ==
    IF app = "web"
    THEN web_gene_record(matrix, last.symbols, i, The(last.run.groups).high,
                         The(last.run.groups).low)[1]
    ELSE simple_gene_record(matrix, i,
                            SamplesOf(The(last.run.groups), Unique(The(last.run.groups))[1]),
                            SamplesOf(The(last.run.groups), Unique(The(last.run.groups))[2]))

\* the records of the table of the last run are those of the genes' own rows:
\* every record is what the loop body gives on the matrix of that one row,
\* and the loop over the rows in reverse gives the same set of records
RecordsFromOwnRows ==
    (last.run.outcome = "ok") =>
        /\ {TestFields(r) : r \in Range(The(last.run.table))}
              = {RecordOf(OnlyRow(ComparedMatrix, i), 1) : i \in DOMAIN ComparedMatrix.index}
        /\ {TestFields(r) : r \in Range(The(last.run.table))}
              = {RecordOf(Reversed(ComparedMatrix), i) : i \in DOMAIN ComparedMatrix.index}

\* C23: after a run, whether it succeeded or failed, the expression matrix,
\* the clinical table and the symbol map of the session are still the ones
\* the run read, and the record of each gene is determined by the gene's own
\* row and the groups: the same records come out whatever the other rows
\* are and in whatever order the rows are tested.
C23_RunReadsOnly ==
    last.op = "analysis" =>
        /\ expression_data = Some(last.matrix)
        /\ clinical_data = last.clinical
        /\ gene_symbols = last.symbols
        /\ RecordsFromOwnRows

\* C23 witness: a stored table of two records that differ in what was tested
C23_Witness ==
    /\ last.op = "analysis"
    /\ last.run.outcome = "ok"
    /\ Len(The(last.run.table)) > 1
    /\ TestFields(The(last.run.table)[1]).gene_id # TestFields(The(last.run.table)[2]).gene_id
    /\ app = "web" =>
          The(last.run.table)[1].low_mean # The(last.run.table)[2].low_mean

-----------------------------------------------------------------------------
(* The three copies of the resolver, checked under SpecResolve *)

AnyResolverCalled ==
    last.op \in {"find_target_gene", "lookup_gene_id", "find_gene_expression"}

\* the row key the call of the last step selected, if any
SelectedKey ==
    IF last.op = "find_gene_expression"
    THEN IF IsNone(last.result) THEN None ELSE Some(The(last.result).name)
    ELSE last.result

-----------------------------------------------------------------------------
(* The display symbol of the records, checked under Spec *)

\* the entries of the map of the last run whose key is a prefix
EntriesFor(prefix) == {k \in DOMAIN last.symbols : last.symbols[k].id = prefix}

\* C25: in the table of a run every record has a display symbol, which is
\* not the empty string: the map's value for the part of the gene identifier
\* before its first '.', when that part is a key of the map, and that part
\* itself otherwise.
C25_DisplaySymbol ==
    (last.op = "analysis" /\ last.run.outcome = "ok") =>
        \A k \in DOMAIN The(last.run.table) :
            LET r == The(last.run.table)[k]
                prefix == BeforeDot(r.gene_id)
                shown == IF app = "web" THEN Some(r.gene_symbol) ELSE r.gene_symbol
            IN  /\ ~IsNone(shown)
                /\ The(shown) # <<>>
                /\ EntriesFor(prefix) # {} =>
                      \E e \in EntriesFor(prefix) : The(shown) = last.symbols[e].symbol
                /\ EntriesFor(prefix) = {} => The(shown) = prefix

-----------------------------------------------------------------------------
(* The t-test fallback of the enhanced app, checked under Spec *)

\* the last step is a run of the enhanced app that stored a table
FallbackRun ==
    /\ app = "enhanced"
    /\ last.op = "analysis"
    /\ last.run.outcome = "ok"

\* the samples carrying the label of the first sample column, and the others
FirstLabelled == Labelled(The(last.run.groups), The(last.run.groups)[1])
OtherLabelled ==
    SelectSeq([i \in DOMAIN The(last.run.groups) |-> i],
              LAMBDA i : The(last.run.groups)[i] # The(last.run.groups)[1])

\* the fold change of the table's record for row i of the compared matrix
FoldChangeOf(i) ==
    (CHOOSE r \in Range(The(last.run.table)) :
        r.gene_id = ComparedMatrix.index[i]).log2FoldChange

\* C26: the fold change of every gene is the mean of log2(x + 1) over the
\* samples that do not carry the first sample column's label, minus that
\* over the samples that do; after a median split it is High minus Low when
\* the first column is Low and Low minus High when it is High; and with the
\* columns reordered so that a sample of the other label comes first, every
\* gene's fold change is the negative of what it was.
C26_ReferenceIsFirstLabel ==
    FallbackRun =>
        \A i \in DOMAIN ComparedMatrix.index :
            LET row == ComparedMatrix.rows[i]
                design == The(last.run.groups)
                moved == OtherLabelled \o FirstLabelled
                again == run_simple_differential_expression(
                             Columns(ComparedMatrix, moved), Slice(design, moved))
            IN  /\ RatEq(FoldChangeOf(i),
                         RatSub(MeanLog(row, OtherLabelled), MeanLog(row, FirstLabelled)))
                /\ (IsNone(last.clinical) /\ last.grouping_method = MedianSplit) =>
                      RatEq(FoldChangeOf(i),
                            IF design[1] = "Low"
                            THEN RatSub(MeanLog(row, Labelled(design, "High")),
                                        MeanLog(row, Labelled(design, "Low")))
                            ELSE RatSub(MeanLog(row, Labelled(design, "Low")),
                                        MeanLog(row, Labelled(design, "High"))))
                /\ ~again.raised
                /\ RatEq(again.value[i].log2FoldChange, RatNeg(FoldChangeOf(i)))

\* C26 witness: a median split whose first sample column is High, with a gene
\* whose fold change, Low minus High, is not zero
C26_Witness ==
    /\ FallbackRun
    /\ IsNone(last.clinical)
    /\ last.grouping_method = MedianSplit
    /\ The(last.run.groups)[1] = "High"
    /\ \E i \in DOMAIN ComparedMatrix.index : ~RatEq(FoldChangeOf(i), Rat(0, 1))

\* C27: a run of the enhanced app that has a group assignment tests the
\* genes only when the assignment has exactly two distinct labels, and then
\* tests every gene; with one label or with three it stops with the error
\* "Simple DE requires exactly 2 groups", no gene is tested and de_results
\* keeps the value it had before the run.
C27_ExactlyTwoLabels ==
    [][ (app = "enhanced" /\ last'.op = "analysis" /\ ~IsNone(last'.run.groups)) =>
          IF Cardinality(Range(The(last'.run.groups))) = 2
          THEN /\ last'.run.outcome = "ok"
               /\ last'.run.tested = last'.matrix.index
          ELSE /\ last'.run.outcome = "failed"
               /\ last'.run.error = "ValueError: Simple DE requires exactly 2 groups"
               /\ last'.run.tested = <<>>
               /\ IsNone(last'.run.table)
               /\ de_results' = de_results ]_vars

\* C27 witness: after a run stored a table, a run whose median split labels
\* every sample High fails and the table is still there
C27_Witness ==
    /\ app = "enhanced"
    /\ last.op = "analysis"
    /\ ~IsNone(last.run.groups)
    /\ Range(The(last.run.groups)) = {"High"}
    /\ last.run.outcome = "failed"
    /\ ~IsNone(de_results)

-----------------------------------------------------------------------------
(* Loading data over a stored table, checked under Spec *)

\* C28: a load leaves the stored table and the symbol map as they are, so a
\* table stored before the load keeps the visualization and results
\* sections, which open when de_results is set, enabled; in the enhanced app
\* a load replaces either the matrix or the clinical table, not both.
C28_LoadKeepsTable ==
    [][ last'.op = "load" =>
          /\ de_results' = de_results
          /\ gene_symbols' = gene_symbols
          /\ app = "enhanced" =>
                (expression_data' = expression_data \/ clinical_data' = clinical_data) ]_vars

\* C28 witness: after a load the stored table has a record whose gene
\* identifier is not a row of the matrix now in the session
C28_Witness ==
    /\ last.op = "load"
    /\ ~IsNone(de_results)
    /\ ~IsNone(expression_data)
    /\ \E k \in DOMAIN The(de_results) :
          \A i \in DOMAIN The(expression_data).index :
              The(expression_data).index[i] # The(de_results)[k].gene_id

-----------------------------------------------------------------------------
(* The summary of the enhanced app against the classifier rule, checked     *)
(* under SpecClassify                                                        *)

\* the rows of the table that the classifier rule calls up and down at the
\* thresholds of the last step
RuleUp ==
    {k \in DOMAIN The(de_results) :
        /\ FLt(The(de_results)[k].padj, last.p_threshold)
        /\ RatLt(RatOfInt(last.fc_threshold), The(de_results)[k].log2FoldChange)}
RuleDown ==
    {k \in DOMAIN The(de_results) :
        /\ FLt(The(de_results)[k].padj, last.p_threshold)
        /\ RatLt(The(de_results)[k].log2FoldChange,
                 RatNeg(RatOfInt(last.fc_threshold)))}

\* C29: the summary counts as up exactly the rows with padj < p and
\* log2FoldChange > fc, as down exactly the rows with padj < p and
\* log2FoldChange < -fc, its significant rows are these rows, and the up
\* count plus the down count is the significant count.
C29_SummaryMatchesRule ==
    last.op = "summary" =>
        /\ last.summary.up_genes = Cardinality(RuleUp)
        /\ last.summary.down_genes = Cardinality(RuleDown)
        /\ Range(last.summary.significant)
              = {The(de_results)[k] : k \in RuleUp \cup RuleDown}
        /\ last.summary.up_genes + last.summary.down_genes
              = Len(last.summary.significant)

\* C29 witness: a summary that counts a gene as down
C29_Witness ==
    /\ last.op = "summary"
    /\ last.summary.down_genes = 1
    /\ RuleDown # {}

-----------------------------------------------------------------------------
(* Properties of the consumers of the stored table, checked under SpecConsume *)

\* the step stores the table of a run that succeeded
StoresRun ==
    /\ last'.op = "analysis"
    /\ last'.run.outcome = "ok"
    /\ de_results' = last'.run.table

\* C24 as stated: the stored table changes only when a run that succeeded
\* replaces it.
C24_OnlyRunReplaces ==
    [][ de_results' # de_results => StoresRun ]_vars

\* C24: the volcano plot, the heatmap, the results section, the report, the
\* sidebar counts and the pathway ranking leave de_results as it is; it
\* changes only when a run that succeeded replaces it or when the Reset All
\* Data button of the enhanced app clears it.
C24_ConsumersReadOnly ==
    [][ de_results' # de_results =>
          \/ StoresRun
          \/ app = "enhanced" /\ last'.op = "reset" /\ IsNone(de_results') ]_vars

\* C24 witness: a volcano plot that shows a gene in a coloured category, the
\* stored table still being without the Category column
C24_Witness ==
    /\ last.op = "create_volcano_plot"
    /\ \E k \in DOMAIN last.shown : last.shown[k].Category # "Not Significant"
    /\ ~IsNone(de_results)
    /\ \A k \in DOMAIN The(de_results) : "Category" \notin DOMAIN The(de_results)[k]

=============================================================================
